---- MODULE Spec2Model ----
(***************************************************************************)
(* The external data-source synchronisation and scheduling engine of       *)
(* backend/server.py: the Connection registry (db.database_connections),   *)
(* the in-memory credential store (_connection_passwords), the sync        *)
(* orchestrator (ad-hoc and scheduled), and the APScheduler glue           *)
(* (scheduler, _scheduled_jobs, the startup restore).                      *)
(*                                                                         *)
(* The server is one asyncio process: a handler runs without interruption  *)
(* from one await to the next, and handlers interleave at their awaits.    *)
(* Every handler is therefore a task with a program counter; one action    *)
(* is one awaited database or adapter operation together with the          *)
(* synchronous code around it.  Where the synchronous code touches the     *)
(* process-wide dictionaries or the scheduler, it is an action of its own. *)
(*                                                                         *)
(* A Mongo collection is a sequence of documents in insertion order (the   *)
(* order find() without a sort returns them in); a document is a record    *)
(* whose DOMAIN is its key set.  Python's None is <<>> and a present       *)
(* value v is <<v>>.                                                       *)
(***************************************************************************)
EXTENDS Integers, Sequences, FiniteSets, TLC

VARIABLES
  connections,     \* db.database_connections
  datasets,        \* db.datasets
  dataset_data,    \* db.dataset_data, one entry per insert_many batch
  passwords,       \* _connection_passwords
  jobs,            \* the scheduler's job store
  scheduled_jobs,  \* _scheduled_jobs
  serving,         \* FALSE between process start and the end of the startup hook
  tasks,           \* the handler invocations in flight, by slot
  resp,            \* the response the last step returned to its caller, if any
  clock,           \* datetime.now(), in abstract ticks
  uuids,           \* how many uuid4() values have been drawn
  supplied,        \* history: the input given at each Connection's registration
  racy,            \* history: Connections whose schedule calls have overlapped
  off,             \* history: Connections whose live trigger a disabling call
                   \* took away, with no enabling call or restart since
  live             \* history: the configuration of the enabling call that last
                   \* returned for each Connection, with no schedule call begun
                   \* on it and no restart since

vars == <<connections, datasets, dataset_data, passwords, jobs, scheduled_jobs,
          serving, tasks, resp, clock, uuids, supplied, racy, off, live>>

-----------------------------------------------------------------------------
(* Bounds of the model *)

MaxTasks == 2
MaxClock == 1
MaxConns == 1
MaxUuids == 2

-----------------------------------------------------------------------------
(* Constants of the program *)

ListLength == 100
OldDatasetsLength == 100
RestoreLength == 100
TableCap == 5
PgListLimit == 10
RowLimit == 10000

-----------------------------------------------------------------------------
(* Values *)

None == <<>>
Some(v) == <<v>>

Truthy(opt) == opt # None /\ opt[1] # ""

Get(doc, key) == IF key \in DOMAIN doc THEN Some(doc[key]) ELSE None

Min(a, b) == IF a <= b THEN a ELSE b

Uuid(n) == "u" \o ToString(n)

Range(s) == {s[i] : i \in 1..Len(s)}

-----------------------------------------------------------------------------
(* The document store *)

Matching(coll, id) == {i \in 1..Len(coll) : coll[i].id = id}

First(idx) == CHOOSE i \in idx : \A j \in idx : i <= j

(* A find_one that takes the first document whatever its id *)
FindAny(coll, id) == IF coll = <<>> THEN None ELSE Some(coll[1])

FindOne(coll, id) ==
  IF Matching(coll, id) = {} THEN None ELSE Some(coll[First(Matching(coll, id))])

InsertOne(coll, doc) == Append(coll, doc)

UpdateOne(coll, id, set) ==
  IF Matching(coll, id) = {} THEN coll
  ELSE [coll EXCEPT ![First(Matching(coll, id))] = set @@ @]

(* delete_one removes the first document that matches *)
DeleteOne(coll, id) ==
  IF Matching(coll, id) = {} THEN coll
  ELSE LET i == First(Matching(coll, id))
       IN SubSeq(coll, 1, i - 1) \o SubSeq(coll, i + 1, Len(coll))

ToList(coll, length) == SubSeq(coll, 1, Min(length, Len(coll)))

Ids(coll) == {coll[i].id : i \in 1..Len(coll)}

-----------------------------------------------------------------------------
(* Python dictionaries *)

EmptyDict == <<>>

DictSet(d, k, v) == (k :> v) @@ d

DictDel(d, k) == [x \in (DOMAIN d) \ {k} |-> d[x]]

DictGet(d, k, default) == IF k \in DOMAIN d THEN d[k] ELSE default

-----------------------------------------------------------------------------
(* Tasks and responses *)

Slots == 1..MaxTasks

Idle == [op |-> "idle"]

NoResp == [op |-> "none"]

FreeSlots == {s \in Slots : tasks[s] = Idle}

CanBegin == serving /\ FreeSlots # {}

NewSlot == CHOOSE s \in FreeSlots : \A r \in FreeSlots : s <= r

Busy(s) == tasks[s] # Idle

(* The invocations in flight are a collection without an order: the loop   *)
(* resumes any of them.  They are kept arranged by what they are doing, so *)
(* that the same collection is one state.                                  *)
Rank(seq, x) == CHOOSE i \in 1..Len(seq) : seq[i] = x

Ops == <<"test", "set_schedule", "get_schedule", "delete_schedule", "sync", "sched",
         "tables">>

Pcs == <<"probe", "found", "update_none", "update_doc", "updated_none", "update",
         "find_old", "delete_rows", "delete_dataset", "connect", "table", "rows">>

Key(t) ==
  IF t = Idle THEN 1000
  ELSE Rank(Ops, t.op) * 20 + (IF "pc" \in DOMAIN t THEN Rank(Pcs, t.pc) ELSE 0)

Before(a, b) == Key(a) < Key(b)

Arrange(running) == SortSeq(running, Before)

NotFound(op, id) ==
  [op |-> op, conn |-> id, code |-> 404, body |-> [detail |-> "Connection not found"]]

Ok(op, id, body) == [op |-> op, conn |-> id, code |-> 200, body |-> body]

(* The ids a caller can send: every id ever issued, and one never issued *)
CallerIds == (DOMAIN supplied) \cup {Uuid(0)}

-----------------------------------------------------------------------------
(* Exceptions of the drivers.  str(e) is the message; asyncpg.connect      *)
(* raises asyncio.TimeoutError, whose str() is empty, when the host does   *)
(* not answer within the timeout.                                          *)

Exc(type, msg) == [type |-> type, msg |-> msg]

Str(e) == e.msg

DbTypes == {"mongodb", "postgresql", "mysql"}

AdapterErrors(db_type) ==
  CASE db_type = "postgresql" ->
         {Exc("PostgresError", "password authentication failed"), Exc("TimeoutError", "")}
    [] db_type = "mysql" -> {Exc("OperationalError", "Can't connect to MySQL server")}
    [] db_type = "mongodb" -> {Exc("ServerSelectionTimeoutError", "No servers found yet")}
    [] OTHER -> {}

Unsupported(db_type) ==
  Exc("HTTPException", "400: Unsupported database type: " \o db_type)

-----------------------------------------------------------------------------
(* POST /database-connections *)

(* A record that takes the engine kind's usual port *)
ConnDocUsualPort(id, in) ==
  [id |-> id, name |-> in.name, db_type |-> in.db_type, host |-> in.host,
   port |-> IF in.db_type = "postgresql" THEN 5432 ELSE 27017,
   database |-> in.database, username |-> in.username,
   org_id |-> in.org_id, status |-> "pending", last_sync |-> None,
   schedule |-> None, created_at |-> clock]

ConnDoc(id, in) ==
  [id |-> id, name |-> in.name, db_type |-> in.db_type, host |-> in.host,
   port |-> in.port, database |-> in.database, username |-> in.username,
   org_id |-> in.org_id, status |-> "pending", last_sync |-> None,
   schedule |-> None, created_at |-> clock]

(* A record flagged whatever was supplied *)
ConnDocFlagged(id, in) == [has_password |-> TRUE] @@ ConnDoc(id, in)

ConnDocWithSecret(id, in) ==
  IF Truthy(in.password) THEN [has_password |-> TRUE] @@ ConnDoc(id, in)
  ELSE ConnDoc(id, in)

StorePassword(id, in) ==
  IF Truthy(in.password) THEN DictSet(passwords, id, in.password[1]) ELSE passwords

(* The password dictionary is written before the awaited insert_one; the   *)
(* id is fresh, so no other handler can read that entry before the insert  *)
(* and the two are one step.                                               *)
create_database_connection(in) ==
  /\ serving
  /\ Cardinality(DOMAIN supplied) < MaxConns
  /\ LET conn_id == Uuid(uuids + 1) IN
       /\ uuids' = uuids + 1
       /\ passwords' = StorePassword(conn_id, in)
       /\ connections' = InsertOne(connections, ConnDocWithSecret(conn_id, in))
       /\ supplied' = DictSet(supplied, conn_id, in)
       /\ resp' = Ok("create", conn_id,
                     [id |-> conn_id, name |-> in.name, status |-> "pending"])
  /\ UNCHANGED <<datasets, dataset_data, jobs, scheduled_jobs, serving, tasks,
                 clock, racy, off, live>>

(* GET /database-connections *)
list_database_connections ==
  /\ serving
  /\ resp' = Ok("list", "*", [connections |-> ToList(connections, ListLength)])
  /\ UNCHANGED <<connections, datasets, dataset_data, passwords, jobs,
                 scheduled_jobs, serving, tasks, clock, uuids, supplied, racy, off, live>>

(* GET /database-connections/{conn_id} *)
get_database_connection(conn_id) ==
  /\ serving
  /\ LET conn == FindOne(connections, conn_id) IN
       resp' = IF conn = None THEN NotFound("get", conn_id)
               ELSE Ok("get", conn_id, conn[1])
  /\ UNCHANGED <<connections, datasets, dataset_data, passwords, jobs,
                 scheduled_jobs, serving, tasks, clock, uuids, supplied, racy, off, live>>

(* DELETE /database-connections/{conn_id} *)
delete_database_connection(conn_id) ==
  /\ serving
  /\ connections' = DeleteOne(connections, conn_id)
  /\ resp' = Ok("delete", conn_id, [status |-> "deleted"])
  /\ UNCHANGED <<datasets, dataset_data, passwords, jobs, scheduled_jobs,
                 serving, tasks, clock, uuids, supplied, racy, off, live>>

-----------------------------------------------------------------------------
(* POST /database-connections/{conn_id}/test *)

TestOutcomes(db_type) ==
  IF db_type \in DbTypes
  THEN {[ok |-> TRUE, e |-> None]} \cup
       {[ok |-> FALSE, e |-> Some(x)] : x \in AdapterErrors(db_type)}
  ELSE {[ok |-> FALSE, e |-> Some(Unsupported(db_type))]}

TestMessage(db_type) ==
  CASE db_type = "mongodb" -> "MongoDB connection successful"
    [] db_type = "postgresql" -> "PostgreSQL connection successful: PostgreSQL 16..."
    [] db_type = "mysql" -> "MySQL connection successful: 8.0"

TestErrorMessage(e) ==
  IF e.type = "PostgresError" THEN "PostgreSQL error: " \o Str(e) ELSE Str(e)

test_begin(conn_id) ==
  /\ CanBegin
  /\ LET conn == FindOne(connections, conn_id) IN
       IF conn = None
       THEN /\ resp' = NotFound("test", conn_id)
            /\ UNCHANGED tasks
       ELSE /\ resp' = NoResp
            /\ tasks' = Arrange([tasks EXCEPT ![NewSlot] =
                 [op |-> "test", conn |-> conn_id, pc |-> "probe",
                  db_type |-> conn[1].db_type,
                  password |-> DictGet(passwords, conn_id, "")]])
  /\ UNCHANGED <<connections, datasets, dataset_data, passwords, jobs,
                 scheduled_jobs, serving, clock, uuids, supplied, racy, off, live>>

test_end(s) ==
  /\ Busy(s) /\ tasks[s].op = "test"
  /\ \E out \in TestOutcomes(tasks[s].db_type) :
       LET conn_id == tasks[s].conn IN
       IF out.ok
       THEN /\ connections' = UpdateOne(connections, conn_id,
                 [status |-> "connected", last_tested |-> Some(clock)])
            /\ resp' = Ok("test", conn_id,
                 [status |-> "connected", message |-> TestMessage(tasks[s].db_type)])
       ELSE /\ connections' = UpdateOne(connections, conn_id,
                 [status |-> "error", error |-> TestErrorMessage(out.e[1])])
            /\ resp' = Ok("test", conn_id,
                 [status |-> "error", message |-> TestErrorMessage(out.e[1])])
  /\ tasks' = Arrange([tasks EXCEPT ![s] = Idle])
  /\ UNCHANGED <<datasets, dataset_data, passwords, jobs, scheduled_jobs,
                 serving, clock, uuids, supplied, racy, off, live>>

-----------------------------------------------------------------------------
(* GET /database-connections/{conn_id}/tables *)

(* What list_database_tables gets from the engine: the names of the n      *)
(* tables it holds, or an exception; an engine kind that is none of the    *)
(* three raises inside the try and is answered like an adapter failure.    *)
TablesOutcomes(db_type, n) ==
  IF db_type \in DbTypes
  THEN {[ok |-> TRUE, tables |-> [i \in 1..n |-> "t" \o ToString(i)]]} \cup
       {[ok |-> FALSE, e |-> x] : x \in AdapterErrors(db_type)}
  ELSE {[ok |-> FALSE, e |-> Exc("HTTPException", "400: Unsupported database type")]}

tables_begin(conn_id) ==
  /\ CanBegin
  /\ LET conn == FindOne(connections, conn_id) IN
       IF conn = None
       THEN /\ resp' = NotFound("tables", conn_id)
            /\ UNCHANGED tasks
       ELSE /\ resp' = NoResp
            /\ tasks' = Arrange([tasks EXCEPT ![NewSlot] =
                 [op |-> "tables", conn |-> conn_id, pc |-> "probe",
                  db_type |-> conn[1].db_type,
                  password |-> DictGet(passwords, conn_id, "")]])
  /\ UNCHANGED <<connections, datasets, dataset_data, passwords, jobs,
                 scheduled_jobs, serving, clock, uuids, supplied, racy, off, live>>

tables_end(s, n) ==
  /\ Busy(s) /\ tasks[s].op = "tables"
  /\ \E out \in TablesOutcomes(tasks[s].db_type, n) :
       resp' = IF out.ok
               THEN Ok("tables", tasks[s].conn,
                       [tables |-> out.tables, count |-> Len(out.tables)])
               ELSE Ok("tables", tasks[s].conn,
                       [status |-> "error", message |-> Str(out.e), tables |-> <<>>])
  /\ tasks' = Arrange([tasks EXCEPT ![s] = Idle])
  /\ UNCHANGED <<connections, datasets, dataset_data, passwords, jobs,
                 scheduled_jobs, serving, clock, uuids, supplied, racy, off, live>>

-----------------------------------------------------------------------------
(* The scheduler: APScheduler's job store, triggers and job ids *)

JobId(conn_id) == "sync_" \o conn_id

IntervalTrigger(unit, value) == [kind |-> "interval", unit |-> unit, value |-> value]

(* A crontab expression is the sequence of its whitespace-separated fields; *)
(* from_crontab raises ValueError unless there are five.                   *)
CronOk(expr) == Len(expr) = 5

CronTrigger(expr) == [kind |-> "cron", fields |-> expr]

(* The first fire of a trigger added now: one period from now, in ticks *)
NextFire(trigger) == clock + (IF trigger.kind = "interval" THEN trigger.value ELSE 1)

Job(conn_id, trigger) ==
  [id |-> JobId(conn_id), args |-> conn_id, trigger |-> trigger,
   next_run_time |-> NextFire(trigger)]

HasJob(store, job_id) == \E j \in store : j.id = job_id

(* A remove_job that leaves the job in the store *)
RemoveNoJob(store, job_id) == store

(* scheduler.remove_job raises JobLookupError when no job has the id *)
RemoveJob(store, job_id) == {j \in store : j.id # job_id}

(* An add_job that leaves a job of the same id beside the new one *)
AddJobBeside(store, job) == store \cup {job}

(* scheduler.add_job(..., id=job_id, replace_existing=True) *)
AddJob(store, job) == {j \in store : j.id # job.id} \cup {job}

GetJob(store, job_id) ==
  IF HasJob(store, job_id) THEN Some(CHOOSE j \in store : j.id = job_id) ELSE None

(* Lines 2271-2284 and 3271-3280: the trigger of a schedule, or the way    *)
(* building it fails.                                                      *)
MakeTrigger(interval_type, interval_value, custom_cron) ==
  CASE interval_type = "hourly" ->
         [ok |-> TRUE, trigger |-> IntervalTrigger("hours", interval_value)]
    [] interval_type = "daily" ->
         [ok |-> TRUE, trigger |-> IntervalTrigger("days", interval_value)]
    [] interval_type = "weekly" ->
         [ok |-> TRUE, trigger |-> IntervalTrigger("weeks", interval_value)]
    [] interval_type = "custom" /\ custom_cron # None /\ custom_cron[1] # <<>> ->
         IF CronOk(custom_cron[1])
         THEN [ok |-> TRUE, trigger |-> CronTrigger(custom_cron[1])]
         ELSE [ok |-> FALSE, error |-> "ValueError"]
    [] OTHER -> [ok |-> FALSE, error |-> "invalid"]

ScheduleDesc(config) ==
  CASE config.interval_type = "hourly" -> <<"Every", config.interval_value, "hour(s)">>
    [] config.interval_type = "daily" -> <<"Every", config.interval_value, "day(s)">>
    [] config.interval_type = "weekly" -> <<"Every", config.interval_value, "week(s)">>
    [] OTHER -> <<"Custom:", config.custom_cron>>

ScheduleOps == {"set_schedule", "delete_schedule"}

(* A schedule call on conn_id begins while another is in flight *)
Overlaps(conn_id) ==
  \E s \in Slots : Busy(s) /\ tasks[s].op \in ScheduleOps /\ tasks[s].conn = conn_id

NoteOverlap(conn_id) == IF Overlaps(conn_id) THEN racy \cup {conn_id} ELSE racy

-----------------------------------------------------------------------------
(* POST /database-connections/{conn_id}/schedule *)

set_begin(conn_id, config) ==
  /\ CanBegin
  /\ IF FindOne(connections, conn_id) = None
     THEN /\ resp' = NotFound("set_schedule", conn_id)
          /\ UNCHANGED <<tasks, racy, off, live>>
     ELSE /\ resp' = NoResp
          /\ racy' = NoteOverlap(conn_id)
          /\ off' = IF config.enabled THEN off \ {conn_id} ELSE off
          /\ live' = DictDel(live, conn_id)
          /\ tasks' = Arrange([tasks EXCEPT ![NewSlot] =
               [op |-> "set_schedule", conn |-> conn_id, pc |-> "found",
                config |-> config, schedule_doc |-> None, had |-> FALSE]])
  /\ UNCHANGED <<connections, datasets, dataset_data, passwords, jobs,
                 scheduled_jobs, serving, clock, uuids, supplied>>

(* A set_refresh_schedule that does not remove the job the map names *)
KeepExisting(conn_id) == jobs

(* Lines 2252-2257: remove the job the map names, ignoring a lookup error *)
RemoveExisting(conn_id) ==
  IF conn_id \in DOMAIN scheduled_jobs
  THEN RemoveJob(jobs, scheduled_jobs[conn_id])
  ELSE jobs

ScheduleDoc(config, job) ==
  [interval_type |-> config.interval_type, interval_value |-> config.interval_value,
   custom_cron |-> config.custom_cron, enabled |-> TRUE,
   description |-> ScheduleDesc(config),
   next_run |-> IF job = None THEN None ELSE Some(job[1].next_run_time)]

(* Lines 2252-2304, the code between the find_one and the update_one *)
set_resume(s) ==
  /\ Busy(s) /\ tasks[s].op = "set_schedule" /\ tasks[s].pc = "found"
  /\ LET conn_id == tasks[s].conn
         config == tasks[s].config
         made == MakeTrigger(config.interval_type, config.interval_value,
                             config.custom_cron)
     IN
       IF ~config.enabled
       THEN /\ jobs' = RemoveExisting(conn_id)
            /\ tasks' = Arrange([tasks EXCEPT ![s].pc = "update_none",
                 ![s].had = HasJob(jobs, JobId(conn_id))])
            /\ resp' = NoResp
            /\ UNCHANGED scheduled_jobs
       ELSE IF ~made.ok
       THEN /\ jobs' = RemoveExisting(conn_id)
            /\ tasks' = Arrange([tasks EXCEPT ![s] = Idle])
            /\ resp' = IF made.error = "invalid"
                       THEN [op |-> "set_schedule", conn |-> conn_id, code |-> 400,
                             body |-> [detail |-> "Invalid schedule configuration"]]
                       ELSE [op |-> "set_schedule", conn |-> conn_id, code |-> 500,
                             body |-> [detail |-> "Internal Server Error"]]
            /\ UNCHANGED scheduled_jobs
       ELSE /\ jobs' = AddJob(RemoveExisting(conn_id), Job(conn_id, made.trigger))
            /\ scheduled_jobs' = DictSet(scheduled_jobs, conn_id, JobId(conn_id))
            /\ tasks' = Arrange([tasks EXCEPT ![s].pc = "update_doc",
                 ![s].had = HasJob(jobs, JobId(conn_id)),
                 ![s].schedule_doc =
                    Some(ScheduleDoc(config, GetJob(jobs', JobId(conn_id))))])
            /\ resp' = NoResp
  /\ UNCHANGED <<connections, datasets, dataset_data, passwords, serving, clock,
                 uuids, supplied, racy, off, live>>

(* What a returning schedule call had found and was asked: history *)
Asked(t) == [config |-> t.config, had |-> t.had]

(* The awaited update_one, and for an enabled schedule the return *)
set_update(s) ==
  /\ Busy(s) /\ tasks[s].op = "set_schedule"
  /\ tasks[s].pc \in {"update_none", "update_doc"}
  /\ LET conn_id == tasks[s].conn IN
       IF tasks[s].pc = "update_none"
       THEN /\ connections' = UpdateOne(connections, conn_id, [schedule |-> None])
            /\ tasks' = Arrange([tasks EXCEPT ![s].pc = "updated_none"])
            /\ resp' = NoResp
            /\ UNCHANGED live
       ELSE /\ connections' = UpdateOne(connections, conn_id,
                 [schedule |-> tasks[s].schedule_doc])
            /\ tasks' = Arrange([tasks EXCEPT ![s] = Idle])
            /\ resp' = [trace |-> Asked(tasks[s])] @@
                 Ok("set_schedule", conn_id,
                    [status |-> "scheduled",
                     schedule |-> ScheduleDesc(tasks[s].config),
                     next_run |-> tasks[s].schedule_doc[1].next_run])
            /\ live' = DictSet(live, conn_id, tasks[s].config)
  /\ UNCHANGED <<datasets, dataset_data, passwords, jobs, scheduled_jobs, serving,
                 clock, uuids, supplied, racy, off>>

(* Lines 2264-2266: after the update_one of a disabled schedule *)
set_disabled(s) ==
  /\ Busy(s) /\ tasks[s].op = "set_schedule" /\ tasks[s].pc = "updated_none"
  /\ scheduled_jobs' = DictDel(scheduled_jobs, tasks[s].conn)
  /\ tasks' = Arrange([tasks EXCEPT ![s] = Idle])
  /\ resp' = [trace |-> Asked(tasks[s])] @@
             Ok("set_schedule", tasks[s].conn,
                [status |-> "disabled", message |-> "Schedule disabled"])
  /\ off' = IF tasks[s].had THEN off \cup {tasks[s].conn} ELSE off
  /\ UNCHANGED <<connections, datasets, dataset_data, passwords, jobs, serving,
                 clock, uuids, supplied, racy, live>>

-----------------------------------------------------------------------------
(* GET /database-connections/{conn_id}/schedule *)

(* The enabling call that last returned for conn_id, if no schedule call    *)
(* has begun on it since and none has overlapped another: history          *)
Enabling(conn_id) ==
  IF conn_id \in (DOMAIN live) \ racy THEN Some(live[conn_id]) ELSE None

get_schedule_begin(conn_id) ==
  /\ CanBegin
  /\ LET conn == FindOne(connections, conn_id) IN
       IF conn = None
       THEN /\ resp' = NotFound("get_schedule", conn_id)
            /\ UNCHANGED tasks
       ELSE /\ resp' = NoResp
            /\ tasks' = Arrange([tasks EXCEPT ![NewSlot] =
                 [op |-> "get_schedule", conn |-> conn_id, pc |-> "found",
                  schedule |-> conn[1].schedule,
                  quiet |-> conn_id \in off \ racy,
                  asked |-> Enabling(conn_id)]])
  /\ UNCHANGED <<connections, datasets, dataset_data, passwords, jobs,
                 scheduled_jobs, serving, clock, uuids, supplied, racy, off, live>>

(* A descriptor returned as it was persisted *)
Unrefreshed(conn_id, schedule) == schedule

(* Lines 2328-2332: the descriptor with the live job's next run time *)
Refreshed(conn_id, schedule) ==
  IF conn_id \in DOMAIN scheduled_jobs /\ GetJob(jobs, scheduled_jobs[conn_id]) # None
  THEN [next_run |-> Some(GetJob(jobs, scheduled_jobs[conn_id])[1].next_run_time)]
       @@ schedule
  ELSE schedule

get_schedule_end(s) ==
  /\ Busy(s) /\ tasks[s].op = "get_schedule"
  /\ resp' = [trace |-> [quiet |-> tasks[s].quiet,
                          asked |-> IF Enabling(tasks[s].conn) = tasks[s].asked
                                    THEN tasks[s].asked ELSE None]] @@
             IF tasks[s].schedule = None
             THEN Ok("get_schedule", tasks[s].conn,
                     [status |-> "not_scheduled", schedule |-> None])
             ELSE Ok("get_schedule", tasks[s].conn,
                     [status |-> "scheduled",
                      schedule |-> Some(Refreshed(tasks[s].conn, tasks[s].schedule[1]))])
  /\ tasks' = Arrange([tasks EXCEPT ![s] = Idle])
  /\ UNCHANGED <<connections, datasets, dataset_data, passwords, jobs,
                 scheduled_jobs, serving, clock, uuids, supplied, racy, off, live>>

-----------------------------------------------------------------------------
(* DELETE /database-connections/{conn_id}/schedule *)

delete_schedule_begin(conn_id) ==
  /\ CanBegin
  /\ IF FindOne(connections, conn_id) = None
     THEN /\ resp' = NotFound("delete_schedule", conn_id)
          /\ UNCHANGED <<tasks, racy, off, live>>
     ELSE /\ resp' = NoResp
          /\ racy' = NoteOverlap(conn_id)
          /\ live' = DictDel(live, conn_id)
          /\ tasks' = Arrange([tasks EXCEPT ![NewSlot] =
               [op |-> "delete_schedule", conn |-> conn_id, pc |-> "found",
                had |-> FALSE]])
  /\ UNCHANGED <<connections, datasets, dataset_data, passwords, jobs,
                 scheduled_jobs, serving, clock, uuids, supplied, off>>

(* A removal that also stops the scheduled sync of the Connection in flight *)
delete_schedule_cancelling(s) ==
  /\ Busy(s) /\ tasks[s].op = "delete_schedule" /\ tasks[s].pc = "found"
  /\ LET conn_id == tasks[s].conn IN
       IF conn_id \in DOMAIN scheduled_jobs /\ HasJob(jobs, scheduled_jobs[conn_id])
       THEN /\ jobs' = RemoveJob(jobs, scheduled_jobs[conn_id])
            /\ scheduled_jobs' = DictDel(scheduled_jobs, conn_id)
       ELSE UNCHANGED <<jobs, scheduled_jobs>>
  /\ tasks' = Arrange([r \in Slots |->
       IF r = s THEN [tasks[s] EXCEPT !.pc = "update",
                                      !.had = HasJob(jobs, JobId(tasks[s].conn))]
       ELSE IF tasks[r].op = "sched" /\ tasks[r].conn = tasks[s].conn THEN Idle
       ELSE tasks[r]])
  /\ resp' = NoResp
  /\ UNCHANGED <<connections, datasets, dataset_data, passwords, serving, clock,
                 uuids, supplied, racy, off, live>>

(* Lines 2343-2348: remove_job and the del are in one try; a lookup error  *)
(* skips the del.                                                          *)
delete_schedule_resume(s) ==
  /\ Busy(s) /\ tasks[s].op = "delete_schedule" /\ tasks[s].pc = "found"
  /\ LET conn_id == tasks[s].conn IN
       IF conn_id \in DOMAIN scheduled_jobs /\ HasJob(jobs, scheduled_jobs[conn_id])
       THEN /\ jobs' = RemoveJob(jobs, scheduled_jobs[conn_id])
            /\ scheduled_jobs' = DictDel(scheduled_jobs, conn_id)
       ELSE UNCHANGED <<jobs, scheduled_jobs>>
  /\ tasks' = Arrange([tasks EXCEPT ![s].pc = "update",
       ![s].had = HasJob(jobs, JobId(tasks[s].conn))])
  /\ resp' = NoResp
  /\ UNCHANGED <<connections, datasets, dataset_data, passwords, serving, clock,
                 uuids, supplied, racy, off, live>>

delete_schedule_update(s) ==
  /\ Busy(s) /\ tasks[s].op = "delete_schedule" /\ tasks[s].pc = "update"
  /\ connections' = UpdateOne(connections, tasks[s].conn, [schedule |-> None])
  /\ tasks' = Arrange([tasks EXCEPT ![s] = Idle])
  /\ resp' = [trace |-> [had |-> tasks[s].had]] @@
             Ok("delete_schedule", tasks[s].conn, [status |-> "removed"])
  /\ UNCHANGED <<datasets, dataset_data, passwords, jobs, scheduled_jobs, serving,
                 clock, uuids, supplied, racy, off, live>>

-----------------------------------------------------------------------------
(* Process lifecycle *)

(* The process stops: the dictionaries, the scheduler's memory job store   *)
(* and the handlers in flight are gone; the database stays.                *)
Restart ==
  /\ serving
  /\ serving' = FALSE
  /\ passwords' = EmptyDict
  /\ scheduled_jobs' = EmptyDict
  /\ jobs' = {}
  /\ tasks' = [s \in Slots |-> Idle]
  /\ racy' = {}
  /\ off' = {}
  /\ live' = EmptyDict
  /\ resp' = NoResp
  /\ UNCHANGED <<connections, datasets, dataset_data, clock, uuids, supplied>>

ScheduleEnabled(doc) == doc.schedule # None /\ doc.schedule[1].enabled = TRUE

(* Lines 3263-3292: the restore loop over the connections found.  Each   *)
(* has its own id, so the jobs added one by one with replace_existing are  *)
(* the jobs below, put in place of the jobs of the same ids.               *)
Restorable(doc) ==
  MakeTrigger(doc.schedule[1].interval_type, doc.schedule[1].interval_value,
              doc.schedule[1].custom_cron).ok

RestoredJob(doc) ==
  Job(doc.id, MakeTrigger(doc.schedule[1].interval_type,
                          doc.schedule[1].interval_value,
                          doc.schedule[1].custom_cron).trigger)

RestoreJobs(found, store) ==
  LET new == {RestoredJob(doc) : doc \in Range(SelectSeq(found, Restorable))}
  IN {j \in store : \A n \in new : n.id # j.id} \cup new

RestoreMap(found, map) ==
  LET ids == Ids(SelectSeq(found, Restorable))
  IN [conn_id \in (DOMAIN map) \cup ids |->
        IF conn_id \in ids THEN JobId(conn_id) ELSE map[conn_id]]

(* Lines 3254-3292: the startup hook; no request is served before it ends *)
startup_db_client ==
  /\ ~serving
  /\ LET connections_with_schedules ==
           ToList(SelectSeq(connections, ScheduleEnabled), RestoreLength)
     IN /\ jobs' = RestoreJobs(connections_with_schedules, jobs)
        /\ scheduled_jobs' = RestoreMap(connections_with_schedules, scheduled_jobs)
  /\ serving' = TRUE
  /\ resp' = [op |-> "startup", code |-> 0]
  /\ UNCHANGED <<connections, datasets, dataset_data, passwords, tasks, clock,
                 uuids, supplied, racy, off, live>>

(* Time passes *)
Tick ==
  /\ clock < MaxClock
  /\ clock' = clock + 1
  /\ resp' = NoResp
  /\ UNCHANGED <<connections, datasets, dataset_data, passwords, jobs,
                 scheduled_jobs, serving, tasks, uuids, supplied, racy, off, live>>

-----------------------------------------------------------------------------
(* The sync orchestrator *)

TableName(i) == "t" \o ToString(i)

(* What the external engine lists when it holds n tables *)
Listed(db_type, n) ==
  [i \in 1..(IF db_type = "postgresql" THEN Min(n, PgListLimit) ELSE n) |->
     TableName(i)]

(* Every listed table a target *)
Uncapped(tables) == tables

Capped(tables) == SubSeq(tables, 1, Min(TableCap, Len(tables)))

DatasetDoc(t, dataset_id, tbl, row_count) ==
  [id |-> dataset_id, name |-> t.name \o " - " \o tbl, source_id |-> t.conn,
   source_type |-> t.db_type, org_id |-> t.org_id, row_count |-> row_count,
   created_at |-> clock]

OfSource(coll, conn_id) ==
  LET Test(doc) == doc.source_id = conn_id IN SelectSeq(coll, Test)

SourceIds(conn_id) == Ids(OfSource(datasets, conn_id))

(* A sync that is handed the secret supplied at registration *)
SyncTaskWithSupplied(op, conn, pc) ==
  [op |-> op, conn |-> conn.id, pc |-> pc, db_type |-> conn.db_type,
   name |-> conn.name, org_id |-> conn.org_id,
   password |-> IF Truthy(supplied[conn.id].password)
                THEN supplied[conn.id].password[1] ELSE "",
   table_name |-> None, tables |-> <<>>, old |-> <<>>, cur |-> None,
   synced |-> <<>>,
   pre |-> SourceIds(conn.id), made |-> {}, hit |-> 0, skipped |-> 0,
   error |-> None]

SyncTask(op, conn, pc) ==
  [op |-> op, conn |-> conn.id, pc |-> pc, db_type |-> conn.db_type,
   name |-> conn.name, org_id |-> conn.org_id,
   password |-> DictGet(passwords, conn.id, ""),
   table_name |-> None, tables |-> <<>>, old |-> <<>>, cur |-> None,
   synced |-> <<>>,
   \* history: the Datasets of the Connection when the sync began, the Datasets
   \* it created, the target tables it met holding rows and holding none, the
   \* exception that ended it
   pre |-> SourceIds(conn.id), made |-> {}, hit |-> 0, skipped |-> 0,
   error |-> None]

Trace(t) ==
  [pre |-> t.pre, made |-> t.made, hit |-> t.hit, skipped |-> t.skipped,
   error |-> t.error]

(* POST /database-connections/{conn_id}/sync *)
sync_begin(conn_id, table_name) ==
  /\ CanBegin
  /\ LET conn == FindOne(connections, conn_id) IN
       IF conn = None
       THEN /\ resp' = NotFound("sync", conn_id)
            /\ UNCHANGED tasks
       ELSE /\ resp' = NoResp
            /\ tasks' = Arrange([tasks EXCEPT ![NewSlot] =
                 [SyncTask("sync", conn[1], "connect") EXCEPT !.table_name = table_name]])
  /\ UNCHANGED <<connections, datasets, dataset_data, passwords, jobs,
                 scheduled_jobs, serving, clock, uuids, supplied, racy, off, live>>

(* The scheduler runs a due job, unless an instance of it is still running  *)
(* (max_instances is 1); _execute_scheduled_sync starts with its find_one.  *)
Running(conn_id) ==
  \E s \in Slots : Busy(s) /\ tasks[s].op = "sched" /\ tasks[s].conn = conn_id

Fire(job) ==
  /\ CanBegin
  /\ job \in jobs
  /\ job.next_run_time <= clock
  /\ ~Running(job.args)
  /\ jobs' = (jobs \ {job}) \cup {[job EXCEPT !.next_run_time = NextFire(job.trigger)]}
  /\ LET conn == FindOne(connections, job.args) IN
       IF conn = None
       THEN /\ resp' = [op |-> "sched", conn |-> job.args, code |-> 0,
                        body |-> [status |-> "not found"]]
            /\ UNCHANGED tasks
       ELSE /\ resp' = [op |-> "sched", conn |-> job.args, code |-> 0,
                        body |-> [status |-> "executing"]]
            /\ tasks' = Arrange([tasks EXCEPT ![NewSlot] =
                 SyncTask("sched", conn[1], "find_old")])
  /\ UNCHANGED <<connections, datasets, dataset_data, passwords, scheduled_jobs,
                 serving, clock, uuids, supplied, racy, off, live>>

IsSync(s) == Busy(s) /\ tasks[s].op \in {"sync", "sched"}

(* How a sync ends on an exception e: the ad-hoc handler (lines 988-990)    *)
(* returns the error; the scheduled one (lines 2238-2243) records it.       *)
SyncFails(s, e) ==
  LET t == [tasks[s] EXCEPT !.error = Some(e)] IN
  /\ tasks' = Arrange([tasks EXCEPT ![s] = Idle])
  /\ IF t.op = "sync"
     THEN /\ resp' = [op |-> "sync", conn |-> t.conn, code |-> 200,
                      body |-> [status |-> "error", message |-> Str(e)],
                      trace |-> Trace(t)]
          /\ UNCHANGED connections
     ELSE /\ resp' = [op |-> "sched", conn |-> t.conn, code |-> 0,
                      body |-> [status |-> "error", message |-> Str(e)],
                      trace |-> Trace(t)]
          /\ connections' = UpdateOne(connections, t.conn,
               [status |-> "error", error |-> Str(e)])

(* A pre-deletion query that does not filter on the Connection *)
sched_find_all(s) ==
  /\ Busy(s) /\ tasks[s].op = "sched" /\ tasks[s].pc = "find_old"
  /\ LET old_datasets == ToList(datasets, OldDatasetsLength)
     IN tasks' = Arrange([tasks EXCEPT
          ![s].old = [i \in 1..Len(old_datasets) |-> old_datasets[i].id],
          ![s].pc = IF old_datasets = <<>> THEN "connect" ELSE "delete_rows"])
  /\ resp' = NoResp
  /\ UNCHANGED <<connections, datasets, dataset_data, passwords, jobs,
                 scheduled_jobs, serving, clock, uuids, supplied, racy, off, live>>

(* Lines 2187-2191 *)
sched_find_old(s) ==
  /\ Busy(s) /\ tasks[s].op = "sched" /\ tasks[s].pc = "find_old"
  /\ LET old_datasets ==
           ToList(OfSource(datasets, tasks[s].conn), OldDatasetsLength)
     IN tasks' = Arrange([tasks EXCEPT
          ![s].old = [i \in 1..Len(old_datasets) |-> old_datasets[i].id],
          ![s].pc = IF old_datasets = <<>> THEN "connect" ELSE "delete_rows"])
  /\ resp' = NoResp
  /\ UNCHANGED <<connections, datasets, dataset_data, passwords, jobs,
                 scheduled_jobs, serving, clock, uuids, supplied, racy, off, live>>

DeleteMany(coll, dataset_id) ==
  LET Other(row) == row.dataset_id # dataset_id IN SelectSeq(coll, Other)

sched_delete_rows(s) ==
  /\ Busy(s) /\ tasks[s].op = "sched" /\ tasks[s].pc = "delete_rows"
  /\ dataset_data' = DeleteMany(dataset_data, Head(tasks[s].old))
  /\ tasks' = Arrange([tasks EXCEPT ![s].pc = "delete_dataset"])
  /\ resp' = NoResp
  /\ UNCHANGED <<connections, datasets, passwords, jobs, scheduled_jobs, serving,
                 clock, uuids, supplied, racy, off, live>>

sched_delete_dataset(s) ==
  /\ Busy(s) /\ tasks[s].op = "sched" /\ tasks[s].pc = "delete_dataset"
  /\ datasets' = DeleteOne(datasets, Head(tasks[s].old))
  /\ tasks' = Arrange([tasks EXCEPT ![s].old = Tail(@),
       ![s].pc = IF Tail(tasks[s].old) = <<>> THEN "connect" ELSE "delete_rows"])
  /\ resp' = NoResp
  /\ UNCHANGED <<connections, dataset_data, passwords, jobs, scheduled_jobs,
                 serving, clock, uuids, supplied, racy, off, live>>

(* Connecting and listing the target tables.  tables is what the engine    *)
(* holds (a count) when it answers, e the exception when it does not.      *)
Targets(t, n) ==
  IF t.table_name # None THEN Capped(<<t.table_name[1]>>)
  ELSE Capped(Listed(t.db_type, n))

(* Whether the step makes a call that can fail: the relational adapters    *)
(* connect first; the document store is first contacted when listing.      *)
Contacts(t) == t.db_type \in {"postgresql", "mysql"} \/ t.table_name = None

sync_connect_ok(s, n) ==
  /\ IsSync(s) /\ tasks[s].pc = "connect"
  /\ tasks[s].db_type \in DbTypes
  /\ tasks' = Arrange([tasks EXCEPT ![s].tables = Targets(tasks[s], n), ![s].pc = "table"])
  /\ resp' = NoResp
  /\ UNCHANGED <<connections, datasets, dataset_data, passwords, jobs,
                 scheduled_jobs, serving, clock, uuids, supplied, racy, off, live>>

sync_connect_fails(s) ==
  /\ IsSync(s) /\ tasks[s].pc = "connect"
  /\ tasks[s].db_type \in DbTypes /\ Contacts(tasks[s])
  /\ \E e \in AdapterErrors(tasks[s].db_type) : SyncFails(s, e)
  /\ UNCHANGED <<datasets, dataset_data, passwords, jobs, scheduled_jobs, serving,
                 clock, uuids, supplied, racy, off, live>>

(* An engine kind that is none of the three: the ad-hoc handler raises      *)
(* (line 979), the scheduled one syncs nothing (line 2230).                 *)
sync_unsupported(s) ==
  /\ IsSync(s) /\ tasks[s].pc = "connect"
  /\ tasks[s].db_type \notin DbTypes
  /\ IF tasks[s].op = "sync"
     THEN SyncFails(s, Unsupported(tasks[s].db_type))
     ELSE /\ tasks' = Arrange([tasks EXCEPT ![s].pc = "table"])
          /\ resp' = NoResp
          /\ UNCHANGED connections
  /\ UNCHANGED <<datasets, dataset_data, passwords, jobs, scheduled_jobs, serving,
                 clock, uuids, supplied, racy, off, live>>

(* A fetch whose Dataset takes the place of the Connection's Datasets *)
sync_fetch_replacing(s, size) ==
  /\ IsSync(s) /\ tasks[s].pc = "table" /\ tasks[s].tables # <<>>
  /\ LET t == tasks[s]
         rows == Min(size, RowLimit)
         dataset_id == Uuid(uuids + 1)
         Other(doc) == doc.source_id # t.conn
     IN IF rows = 0
        THEN /\ tasks' = Arrange([tasks EXCEPT ![s].tables = Tail(@),
                  ![s].skipped = @ + 1])
             /\ UNCHANGED <<datasets, uuids>>
        ELSE /\ uuids < MaxUuids
             /\ uuids' = uuids + 1
             /\ datasets' = InsertOne(SelectSeq(datasets, Other),
                  DatasetDoc(t, dataset_id, Head(t.tables), rows))
             /\ tasks' = Arrange([tasks EXCEPT ![s].pc = "rows",
                  ![s].cur = Some([dataset_id |-> dataset_id, rows |-> rows]),
                  ![s].made = @ \cup {dataset_id},
                  ![s].hit = @ + 1])
  /\ resp' = NoResp
  /\ UNCHANGED <<connections, dataset_data, passwords, jobs, scheduled_jobs,
                 serving, clock, supplied, racy, off, live>>

(* Fetching the next target table: size is the number of rows it holds.    *)
(* An empty table is skipped; otherwise the Dataset document is inserted.  *)
sync_fetch(s, size) ==
  /\ IsSync(s) /\ tasks[s].pc = "table" /\ tasks[s].tables # <<>>
  /\ LET t == tasks[s]
         rows == Min(size, RowLimit)
         dataset_id == Uuid(uuids + 1)
     IN IF rows = 0
        THEN /\ tasks' = Arrange([tasks EXCEPT ![s].tables = Tail(@),
                  ![s].skipped = @ + 1])
             /\ UNCHANGED <<datasets, uuids>>
        ELSE /\ uuids < MaxUuids
             /\ uuids' = uuids + 1
             /\ datasets' = InsertOne(datasets,
                  DatasetDoc(t, dataset_id, Head(t.tables), rows))
             /\ tasks' = Arrange([tasks EXCEPT ![s].pc = "rows",
                  ![s].cur = Some([dataset_id |-> dataset_id, rows |-> rows]),
                  ![s].made = @ \cup {dataset_id},
                  ![s].hit = @ + 1])
  /\ resp' = NoResp
  /\ UNCHANGED <<connections, dataset_data, passwords, jobs, scheduled_jobs,
                 serving, clock, supplied, racy, off, live>>

(* A failing fetch that takes back the Datasets the sync has written *)
sync_fetch_undone(s) ==
  /\ IsSync(s) /\ tasks[s].pc = "table" /\ tasks[s].tables # <<>>
  /\ \E e \in AdapterErrors(tasks[s].db_type) : SyncFails(s, e)
  /\ LET Kept(doc) == doc.id \notin tasks[s].made
         KeptRow(row) == row.dataset_id \notin tasks[s].made
     IN /\ datasets' = SelectSeq(datasets, Kept)
        /\ dataset_data' = SelectSeq(dataset_data, KeptRow)
  /\ UNCHANGED <<passwords, jobs, scheduled_jobs, serving,
                 clock, uuids, supplied, racy, off, live>>

sync_fetch_fails(s) ==
  /\ IsSync(s) /\ tasks[s].pc = "table" /\ tasks[s].tables # <<>>
  /\ \E e \in AdapterErrors(tasks[s].db_type) : SyncFails(s, e)
  /\ UNCHANGED <<datasets, dataset_data, passwords, jobs, scheduled_jobs, serving,
                 clock, uuids, supplied, racy, off, live>>

Summary(t) ==
  IF t.op = "sched" /\ t.db_type = "mongodb"
  THEN [name |-> Head(t.tables), rows |-> t.cur[1].rows]
  ELSE [dataset_id |-> t.cur[1].dataset_id, name |-> Head(t.tables),
        rows |-> t.cur[1].rows]

(* An insert_many that tags the rows with the Connection's oldest Dataset *)
sync_insert_rows_into_oldest(s) ==
  /\ IsSync(s) /\ tasks[s].pc = "rows"
  /\ dataset_data' = InsertOne(dataset_data,
       [tasks[s].cur[1] EXCEPT
          !.dataset_id = IF OfSource(datasets, tasks[s].conn) = <<>> THEN @
                         ELSE OfSource(datasets, tasks[s].conn)[1].id])
  /\ tasks' = Arrange([tasks EXCEPT ![s].pc = "table", ![s].tables = Tail(@),
       ![s].cur = None, ![s].synced = Append(@, Summary(tasks[s]))])
  /\ resp' = NoResp
  /\ UNCHANGED <<connections, datasets, passwords, jobs, scheduled_jobs, serving,
                 clock, uuids, supplied, racy, off, live>>

(* insert_many of the fetched rows *)
sync_insert_rows(s) ==
  /\ IsSync(s) /\ tasks[s].pc = "rows"
  /\ dataset_data' = InsertOne(dataset_data, tasks[s].cur[1])
  /\ tasks' = Arrange([tasks EXCEPT ![s].pc = "table", ![s].tables = Tail(@),
       ![s].cur = None, ![s].synced = Append(@, Summary(tasks[s]))])
  /\ resp' = NoResp
  /\ UNCHANGED <<connections, datasets, passwords, jobs, scheduled_jobs, serving,
                 clock, uuids, supplied, racy, off, live>>

(* insert_many raises (the store refuses the batch): nothing is inserted *)
sync_insert_rows_fails(s) ==
  /\ IsSync(s) /\ tasks[s].pc = "rows"
  /\ SyncFails(s, Exc("BulkWriteError", "batch op errors occurred"))
  /\ UNCHANGED <<datasets, dataset_data, passwords, jobs, scheduled_jobs, serving,
                 clock, uuids, supplied, racy, off, live>>

(* A completion that records the status without the time *)
SyncedUndated == [status |-> "synced"]

(* Lines 981-984 and 2232-2235: what a completed sync sets *)
Synced == [status |-> "synced", last_sync |-> Some(clock)]

(* After the last table: lines 981-986 and 2232-2236 *)
sync_finish(s) ==
  /\ IsSync(s) /\ tasks[s].pc = "table" /\ tasks[s].tables = <<>>
  /\ connections' = UpdateOne(connections, tasks[s].conn, Synced)
  /\ resp' = IF tasks[s].op = "sync"
             THEN [op |-> "sync", conn |-> tasks[s].conn, code |-> 200,
                   body |-> [status |-> "success", datasets |-> tasks[s].synced],
                   trace |-> Trace(tasks[s])]
             ELSE [op |-> "sched", conn |-> tasks[s].conn, code |-> 0,
                   body |-> [status |-> "completed", datasets |-> Len(tasks[s].synced)],
                   trace |-> Trace(tasks[s])]
  /\ tasks' = Arrange([tasks EXCEPT ![s] = Idle])
  /\ UNCHANGED <<datasets, dataset_data, passwords, jobs, scheduled_jobs, serving,
                 clock, uuids, supplied, racy, off, live>>

-----------------------------------------------------------------------------
(* What callers and the external engines can supply *)

Port(db_type) ==
  CASE db_type = "postgresql" -> 5432
    [] db_type = "mysql" -> 3306
    [] OTHER -> 27017

Input(name, db_type, username, password) ==
  [name |-> name, db_type |-> db_type, host |-> "localhost", port |-> Port(db_type),
   database |-> "test_db", username |-> username, password |-> password,
   org_id |-> None]

RegInputs ==
  {Input("TEST_PostgreSQL_Connection", "postgresql", Some("postgres"), Some("s3cret")),
   Input("TEST_MySQL_Connection", "mysql", Some("root"), Some("")),
   Input("TEST_Get_Connection", "mongodb", None, None),
   Input("TEST_Oracle_Connection", "oracle", Some("system"), Some("s3cret"))}

Config(interval_type, interval_value, custom_cron, enabled) ==
  [interval_type |-> interval_type, interval_value |-> interval_value,
   custom_cron |-> custom_cron, enabled |-> enabled]

Configs ==
  {Config("hourly", 1, None, TRUE),
   Config("custom", 1, Some(<<"0", "*/6", "*", "*", "*">>), TRUE),
   Config("custom", 1, Some(<<"every", "day">>), TRUE),
   Config("monthly", 1, None, TRUE),
   Config("daily", 1, None, FALSE)}

TableNames == {None, Some(TableName(1))}

TableCounts == {0, 1, 2}

TableSizes == {0, 1, RowLimit + 1}

-----------------------------------------------------------------------------
(* The system *)

Memory ==
  /\ passwords = EmptyDict
  /\ scheduled_jobs = EmptyDict
  /\ jobs = {}
  /\ serving = FALSE
  /\ tasks = [s \in Slots |-> Idle]
  /\ resp = NoResp
  /\ clock = 0
  /\ racy = {}
  /\ off = {}
  /\ live = EmptyDict

(* A fresh installation: the database is empty and the process starts *)
Init ==
  /\ connections = <<>>
  /\ datasets = <<>>
  /\ dataset_data = <<>>
  /\ uuids = 0
  /\ supplied = EmptyDict
  /\ Memory

Next ==
  \/ \E in \in RegInputs : create_database_connection(in)
  \/ list_database_connections
  \/ \E conn_id \in CallerIds : get_database_connection(conn_id)
  \/ \E conn_id \in CallerIds : delete_database_connection(conn_id)
  \/ \E conn_id \in CallerIds : test_begin(conn_id)
  \/ \E s \in Slots : test_end(s)
  \/ \E conn_id \in CallerIds : tables_begin(conn_id)
  \/ \E s \in Slots, n \in TableCounts : tables_end(s, n)
  \/ \E conn_id \in CallerIds, config \in Configs : set_begin(conn_id, config)
  \/ \E s \in Slots : set_resume(s)
  \/ \E s \in Slots : set_update(s)
  \/ \E s \in Slots : set_disabled(s)
  \/ \E conn_id \in CallerIds : get_schedule_begin(conn_id)
  \/ \E s \in Slots : get_schedule_end(s)
  \/ \E conn_id \in CallerIds : delete_schedule_begin(conn_id)
  \/ \E s \in Slots : delete_schedule_resume(s)
  \/ \E s \in Slots : delete_schedule_update(s)
  \/ \E conn_id \in CallerIds, table_name \in TableNames : sync_begin(conn_id, table_name)
  \/ \E job \in jobs : Fire(job)
  \/ \E s \in Slots : sched_find_old(s)
  \/ \E s \in Slots : sched_delete_rows(s)
  \/ \E s \in Slots : sched_delete_dataset(s)
  \/ \E s \in Slots, n \in TableCounts : sync_connect_ok(s, n)
  \/ \E s \in Slots : sync_connect_fails(s)
  \/ \E s \in Slots : sync_unsupported(s)
  \/ \E s \in Slots, size \in TableSizes : sync_fetch(s, size)
  \/ \E s \in Slots : sync_fetch_fails(s)
  \/ \E s \in Slots : sync_insert_rows(s)
  \/ \E s \in Slots : sync_insert_rows_fails(s)
  \/ \E s \in Slots : sync_finish(s)
  \/ startup_db_client
  \/ Restart
  \/ Tick

Spec == Init /\ [][Next]_vars


-----------------------------------------------------------------------------
(* The process starts on a database that earlier runs have written: the    *)
(* Connections registered from the inputs ins, in that order.  What the    *)
(* process held in memory, the secrets included, is gone.                  *)

Registered(ins) ==
  [i \in 1..Len(ins) |-> [ConnDocWithSecret(Uuid(i), ins[i]) EXCEPT !.created_at = 0]]

InitStored(docs, ins) ==
  /\ Memory
  /\ connections = docs
  /\ datasets = <<>>
  /\ dataset_data = <<>>
  /\ uuids = Len(ins)
  /\ supplied = [id \in {Uuid(i) : i \in 1..Len(ins)} |->
                   ins[CHOOSE i \in 1..Len(ins) : Uuid(i) = id]]

InitRegistered(ins) == InitStored(Registered(ins), ins)

(* The scheduler: one registered Connection, its schedule calls, its fires *)
InitSchedule ==
  InitRegistered(<<Input("TEST_Schedule_Connection", "mongodb", None, None)>>)

ScheduleConfigs ==
  {Config("hourly", 1, None, TRUE),
   Config("daily", 1, None, FALSE)}

NextSchedule ==
  \/ \E conn_id \in CallerIds, config \in ScheduleConfigs : set_begin(conn_id, config)
  \/ \E s \in Slots : set_resume(s)
  \/ \E s \in Slots : set_update(s)
  \/ \E s \in Slots : set_disabled(s)
  \/ \E conn_id \in CallerIds : get_schedule_begin(conn_id)
  \/ \E s \in Slots : get_schedule_end(s)
  \/ \E conn_id \in CallerIds : delete_schedule_begin(conn_id)
  \/ \E s \in Slots : delete_schedule_resume(s)
  \/ \E s \in Slots : delete_schedule_update(s)
  \/ \E job \in jobs : Fire(job)
  \/ \E s \in Slots : sched_find_old(s)
  \/ \E s \in Slots : sync_connect_ok(s, 0)
  \/ \E s \in Slots : sync_connect_fails(s)
  \/ \E s \in Slots : sync_finish(s)
  \/ startup_db_client
  \/ Restart
  \/ Tick

SpecSchedule == InitSchedule /\ [][NextSchedule]_vars

-----------------------------------------------------------------------------------------------------------------------------------------------------
(* The registry from an empty database, with one caller that waits for     *)
(* each answer before its next request, and the scheduler beside it.       *)

RegistryConfigs == {Config("hourly", 1, None, TRUE)}

Quiet == \A s \in Slots : tasks[s] = Idle

NextRegistry ==
  \/ \E in \in RegInputs : Quiet /\ create_database_connection(in)
  \/ Quiet /\ list_database_connections
  \/ \E conn_id \in CallerIds : Quiet /\ get_database_connection(conn_id)
  \/ \E conn_id \in CallerIds : Quiet /\ delete_database_connection(conn_id)
  \/ \E conn_id \in CallerIds : Quiet /\ test_begin(conn_id)
  \/ \E s \in Slots : test_end(s)
  \/ \E conn_id \in CallerIds, config \in RegistryConfigs :
       Quiet /\ set_begin(conn_id, config)
  \/ \E s \in Slots : set_resume(s)
  \/ \E s \in Slots : set_update(s)
  \/ \E conn_id \in CallerIds : Quiet /\ sync_begin(conn_id, None)
  \/ \E s \in Slots : sync_connect_ok(s, 0)
  \/ \E s \in Slots : sync_connect_fails(s)
  \/ \E s \in Slots : sync_unsupported(s)
  \/ \E s \in Slots : sync_finish(s)
  \/ startup_db_client
  \/ Restart

SpecRegistry == Init /\ [][NextRegistry]_vars

(* The same with time passing and the scheduler firing the jobs that are due *)
NextDelete ==
  \/ NextRegistry
  \/ \E job \in jobs : Fire(job)
  \/ \E s \in Slots : sched_find_old(s)
  \/ Tick

SpecDelete == Init /\ [][NextDelete]_vars

-----------------------------------------------------------------------------
(* Properties of the scheduler *)

TriggersOf(conn_id) == {j \in jobs : j.args = conn_id}

Persisted(conn_id) == FindOne(connections, conn_id)

Returned(op) == resp.op = op /\ resp.code = 200

(* C2: the scheduler holds at most one live trigger per Connection, under  *)
(* the job id "sync_" + connection id; an enabling set_refresh_schedule     *)
(* that did not overlap another schedule call on its Connection leaves      *)
(* exactly one, built from the configuration it was given, whether or not   *)
(* a trigger was live when it arrived.                                      *)
C2_OneTriggerPerConnection ==
  /\ \A j \in jobs : j.id = JobId(j.args) /\ Cardinality(TriggersOf(j.args)) = 1
  /\ (Returned("set_schedule") /\ resp.body.status = "scheduled"
        /\ resp.conn \notin racy) =>
       LET config == resp.trace.config IN
       /\ Cardinality(TriggersOf(resp.conn)) = 1
       /\ \A j \in TriggersOf(resp.conn) :
            j.trigger = MakeTrigger(config.interval_type, config.interval_value,
                                    config.custom_cron).trigger

(* A second enabling call in succession has returned: one trigger is live *)
C2_SecondEnableReturned ==
  /\ Returned("set_schedule") /\ resp.body.status = "scheduled"
  /\ resp.trace.had /\ resp.conn \notin racy
  /\ Cardinality(TriggersOf(resp.conn)) = 1

-----------------------------------------------------------------------------
(* The sync orchestrator on one registered Connection, relational or      *)
(* document store, with a persisted schedule that startup restores: one    *)
(* caller that waits for each answer, and the scheduler beside it.         *)

Scheduled(docs, config) ==
  [i \in 1..Len(docs) |->
     [schedule |-> Some(ScheduleDoc(config, Some([next_run_time |-> 1])))]
     @@ docs[i]]

InitScheduled(ins, config) == InitStored(Scheduled(Registered(ins), config), ins)

SyncInputs ==
  {Input("TEST_PostgreSQL_Connection", "postgresql", Some("postgres"), Some("s3cret")),
   Input("TEST_MongoDB_Connection", "mongodb", None, None)}

SyncCounts == {0, 2}

SyncSizes == {0, 1}

InitSync ==
  \E in \in SyncInputs : InitScheduled(<<in>>, Config("hourly", 1, None, TRUE))

NextSync ==
  \/ \E conn_id \in CallerIds, table_name \in TableNames :
       Quiet /\ sync_begin(conn_id, table_name)
  \/ \E job \in jobs : Fire(job)
  \/ \E s \in Slots : sched_find_old(s)
  \/ \E s \in Slots : sched_delete_rows(s)
  \/ \E s \in Slots : sched_delete_dataset(s)
  \/ \E s \in Slots, n \in SyncCounts : sync_connect_ok(s, n)
  \/ \E s \in Slots : sync_connect_fails(s)
  \/ \E s \in Slots, size \in SyncSizes : sync_fetch(s, size)
  \/ \E s \in Slots : sync_fetch_fails(s)
  \/ \E s \in Slots : sync_insert_rows(s)
  \/ \E s \in Slots : sync_insert_rows_fails(s)
  \/ \E s \in Slots : sync_finish(s)
  \/ startup_db_client
  \/ Tick

SpecSync == InitSync /\ [][NextSync]_vars

-----------------------------------------------------------------------------
(* Scheduled syncs of one Connection that has accumulated Datasets from    *)
(* earlier syncs: as many as the pre-deletion query returns, one more,     *)
(* and few.  Each has one batch of rows.                                   *)

AccumCounts == {0, 1, OldDatasetsLength, OldDatasetsLength + 1}

AccumInput == Input("TEST_Schedule_Connection", "mongodb", None, None)

OldId(i) == "d" \o ToString(i)

Accumulated(k) ==
  [i \in 1..k |->
     DatasetDoc([name |-> AccumInput.name, conn |-> Uuid(1),
                 db_type |-> AccumInput.db_type, org_id |-> AccumInput.org_id],
                OldId(i), TableName(1), 1)]

AccumulatedRows(k) == [i \in 1..k |-> [dataset_id |-> OldId(i), rows |-> 1]]

InitAccum ==
  /\ Memory
  /\ connections =
       Scheduled(Registered(<<AccumInput>>), Config("hourly", 1, None, TRUE))
  /\ \E k \in AccumCounts :
       datasets = Accumulated(k) /\ dataset_data = AccumulatedRows(k)
  /\ uuids = 1
  /\ supplied = [id \in {Uuid(1)} |-> AccumInput]

NextAccum ==
  \/ \E job \in jobs : Fire(job)
  \/ \E s \in Slots : sched_find_old(s)
  \/ \E s \in Slots : sched_delete_rows(s)
  \/ \E s \in Slots : sched_delete_dataset(s)
  \/ \E s \in Slots, n \in {0, 1} : sync_connect_ok(s, n)
  \/ \E s \in Slots : sync_connect_fails(s)
  \/ \E s \in Slots, size \in {0, 1} : sync_fetch(s, size)
  \/ \E s \in Slots : sync_fetch_fails(s)
  \/ \E s \in Slots : sync_insert_rows(s)
  \/ \E s \in Slots : sync_finish(s)
  \/ startup_db_client
  \/ Tick

SpecAccum == InitAccum /\ [][NextAccum]_vars

-----------------------------------------------------------------------------
(* Startup on a registry of Connections with persisted enabled schedules:  *)
(* as many as the restore query returns, one more, and few.  Callers then  *)
(* read and remove the schedules of the first two.                         *)

RestoreCounts == {1, 2, RestoreLength, RestoreLength + 1}

RestoreCallers == {Uuid(1), Uuid(2)}

RestoreInput(i) ==
  Input("TEST_Connection_" \o ToString(i), "mongodb", None, None)

RestoreConfig(i) ==
  IF i % 2 = 1 THEN Config("daily", 2, None, TRUE)
  ELSE Config("custom", 1, Some(<<"0", "*/6", "*", "*", "*">>), TRUE)

Stored(k) ==
  [i \in 1..k |->
     Scheduled(Registered([j \in 1..k |-> RestoreInput(j)]), RestoreConfig(i))[i]]

InitRestore ==
  /\ Memory
  /\ \E k \in RestoreCounts :
       /\ connections = Stored(k)
       /\ uuids = k
       /\ supplied = [id \in {Uuid(i) : i \in 1..k} |->
                        RestoreInput(CHOOSE i \in 1..k : Uuid(i) = id)]
  /\ datasets = <<>>
  /\ dataset_data = <<>>

NextRestore ==
  \/ startup_db_client
  \/ Restart
  \/ Tick
  \/ \E conn_id \in RestoreCallers : get_schedule_begin(conn_id)
  \/ \E s \in Slots : get_schedule_end(s)
  \/ \E conn_id \in RestoreCallers : delete_schedule_begin(conn_id)
  \/ \E s \in Slots : delete_schedule_resume(s)
  \/ \E s \in Slots : delete_schedule_update(s)

SpecRestore == InitRestore /\ [][NextRestore]_vars

-----------------------------------------------------------------------------
(* Properties of the sync orchestrator *)

SyncEnded == resp.op \in {"sync", "sched"} /\ "trace" \in DOMAIN resp

AdapterFailed ==
  /\ SyncEnded /\ resp.trace.error # None
  /\ Persisted(resp.conn) # None
  /\ resp.trace.error[1] \in AdapterErrors(Persisted(resp.conn)[1].db_type)

(* C8: when a sync of an existing Connection ends on an adapter exception, *)
(* ad-hoc or scheduled, the registry record has status "error" and the     *)
(* exception's message in its error field, and the ad-hoc caller gets the  *)
(* response {status: "error", message} with code 200.                      *)
C8_SyncFailureRecorded ==
  AdapterFailed =>
    LET e == resp.trace.error[1]
        doc == Persisted(resp.conn)[1]
    IN /\ doc.status = "error"
       /\ Get(doc, "error") = Some(Str(e))
       /\ resp.op = "sync" =>
            resp.code = 200 /\ resp.body = [status |-> "error", message |-> Str(e)]

(* C10: a sync that ends without an exception and met no target table      *)
(* holding rows (no target table at all, or only empty ones) created no    *)
(* Dataset, answers {status: "success", datasets: []} to an ad-hoc caller, *)
(* and leaves the Connection with status "synced" and last_sync set to the *)
(* current time.                                                           *)
C10_EmptySyncSucceeds ==
  (SyncEnded /\ resp.trace.error = None /\ resp.trace.hit = 0) =>
    /\ resp.trace.made = {}
    /\ \A i \in 1..Len(datasets) : datasets[i].row_count > 0
    /\ \A i \in 1..Len(dataset_data) : dataset_data[i].rows > 0
    /\ resp.op = "sync" =>
         resp.code = 200 /\ resp.body = [status |-> "success", datasets |-> <<>>]
    /\ resp.op = "sched" => resp.body = [status |-> "completed", datasets |-> 0]
    /\ Persisted(resp.conn) # None =>
         /\ Persisted(resp.conn)[1].status = "synced"
         /\ Persisted(resp.conn)[1].last_sync = Some(clock)

(* An ad-hoc sync whose target tables were all empty has returned *)
C10_EmptyTablesSynced ==
  /\ SyncEnded /\ resp.op = "sync" /\ resp.trace.error = None
  /\ resp.trace.hit = 0 /\ resp.trace.skipped > 0
  /\ resp.body.status = "success"
  /\ Persisted(resp.conn)[1].status = "synced"

-----------------------------------------------------------------------------
(* Properties of the registry *)

Secrets ==
  {supplied[id].password[1] :
     id \in {i \in DOMAIN supplied : Truthy(supplied[i].password)}}

TextKeys == {"id", "name", "db_type", "host", "database", "status", "error"}

OptionalTextKeys == {"username", "org_id"}

OtherKeys == {"port", "last_sync", "last_tested", "schedule", "created_at", "has_password"}

(* No field of the record holds a secret *)
Clean(doc) ==
  /\ DOMAIN doc \subseteq TextKeys \cup OptionalTextKeys \cup OtherKeys
  /\ \A k \in DOMAIN doc \cap TextKeys : doc[k] \notin Secrets
  /\ \A k \in DOMAIN doc \cap OptionalTextKeys :
       doc[k] # None => doc[k][1] \notin Secrets

Flagged(doc) == Get(doc, "has_password") = Some(TRUE)

Faithful(doc) == Clean(doc) /\ (Flagged(doc) <=> Truthy(supplied[doc.id].password))

(* C5: every registry record, as stored and as returned by get and list,   *)
(* has has_password set to true exactly when a non-empty secret was        *)
(* supplied at its registration, and holds the secret in none of its       *)
(* fields, whatever test, sync and schedule operations have written.       *)
C5_SecretStaysOut ==
  /\ \A i \in 1..Len(connections) : Faithful(connections[i])
  /\ Returned("get") => Faithful(resp.body)
  /\ Returned("list") =>
       \A i \in 1..Len(resp.body.connections) : Faithful(resp.body.connections[i])

(* get returns the record of a Connection registered with a secret, after  *)
(* a test or a sync and a schedule call have written to it                 *)
C5_FlaggedRecordRead ==
  /\ Returned("get") /\ Flagged(resp.body)
  /\ resp.body.status # "pending" /\ resp.body.schedule # None

(* C9: a test that fails returns {status: "error", message} with a         *)
(* non-empty message and code 200 and sets the status to "error"; a test   *)
(* that succeeds sets the status to "connected" and last_tested to the     *)
(* current time.                                                           *)
C9_TestOutcomeRecorded ==
  Returned("test") =>
    LET conn == Persisted(resp.conn) IN
    /\ resp.body.status \in {"connected", "error"}
    /\ resp.body.status = "error" =>
         /\ resp.body.message # ""
         /\ conn # None => conn[1].status = "error"
    /\ resp.body.status = "connected" =>
         (conn # None =>
            /\ conn[1].status = "connected"
            /\ Get(conn[1], "last_tested") = Some(Some(clock)))

Gone == (DOMAIN supplied) \ Ids(connections)

(* C4: once a Connection has been deleted, the password dictionary has no  *)
(* entry for its id, the scheduler holds no job of it, and no scheduled    *)
(* sync of it starts.                                                      *)
C4_DeleteCascades ==
  /\ \A conn_id \in Gone : conn_id \notin DOMAIN passwords /\ TriggersOf(conn_id) = {}
  /\ (resp.op = "sched" /\ resp.body.status \in {"executing", "not found"}) =>
       resp.conn \notin Gone

-----------------------------------------------------------------------------
(* Properties that count *)

(* C1: when a scheduled sync of a Connection completes, every Dataset with *)
(* that source_id was created by that sync, and none that existed when it  *)
(* began is left.                                                          *)
C1_OnlyLatestDatasets ==
  (resp.op = "sched" /\ resp.body.status = "completed") =>
    /\ SourceIds(resp.conn) \subseteq resp.trace.made
    /\ SourceIds(resp.conn) \cap resp.trace.pre = {}

Enabled == SelectSeq(connections, ScheduleEnabled)

(* C3: when the startup hook ends, the scheduler holds exactly one job per *)
(* Connection whose persisted schedule is enabled, under the id "sync_" +  *)
(* connection id, with the trigger its interval_type, interval_value and   *)
(* custom_cron describe, and no other job.                                 *)
C3_RestoresEverySchedule ==
  resp.op = "startup" =>
    /\ Cardinality(jobs) = Len(Enabled)
    /\ \A i \in 1..Len(Enabled) :
         LET schedule == Enabled[i].schedule[1] IN
         \E j \in jobs :
           /\ j.id = JobId(Enabled[i].id) /\ j.args = Enabled[i].id
           /\ j.trigger = MakeTrigger(schedule.interval_type, schedule.interval_value,
                                      schedule.custom_cron).trigger

-----------------------------------------------------------------------------
(* The lifecycle of Connection.status *)

Statuses == {"pending", "connected", "error", "synced"}

StatusOf(coll, conn_id) == FindOne(coll, conn_id)[1].status

TestReturned(r) == r.op = "test" /\ r.code = 200

SyncReturned(r) == r.op \in {"sync", "sched"} /\ "trace" \in DOMAIN r

(* The step that answered r is one that may set the status of conn_id to   *)
(* status                                                                  *)
Sets(r, conn_id, status) ==
  CASE status = "connected" ->
         TestReturned(r) /\ r.conn = conn_id /\ r.body.status = "connected"
    [] status = "error" ->
         \/ TestReturned(r) /\ r.conn = conn_id /\ r.body.status = "error"
         \/ SyncReturned(r) /\ r.conn = conn_id /\ r.trace.error # None
    [] status = "synced" ->
         SyncReturned(r) /\ r.conn = conn_id /\ r.trace.error = None
    [] OTHER -> FALSE

(* The status the step that answered r must leave *)
Outcome(r) ==
  IF TestReturned(r) THEN r.body.status
  ELSE IF r.trace.error = None THEN "synced" ELSE "error"

(* C11: the status of every Connection is one of pending, connected, error *)
(* and synced; a Connection is registered with pending; the status changes *)
(* only to connected by a successful test, to error by a failed test or a  *)
(* failed sync, to synced by a successful sync; and every test and sync    *)
(* that ends on an existing Connection, whatever its status was, leaves    *)
(* the status of its outcome.                                              *)
C11_StatusLifecycle ==
  [][/\ \A i \in 1..Len(connections') : connections'[i].status \in Statuses
     /\ \A conn_id \in Ids(connections') \ Ids(connections) :
          StatusOf(connections', conn_id) = "pending"
     /\ \A conn_id \in Ids(connections') \cap Ids(connections) :
          StatusOf(connections', conn_id) # StatusOf(connections, conn_id) =>
            Sets(resp', conn_id, StatusOf(connections', conn_id))
     /\ (TestReturned(resp') \/ SyncReturned(resp')) =>
          (resp'.conn \in Ids(connections') =>
             StatusOf(connections', resp'.conn) = Outcome(resp'))]_vars

-----------------------------------------------------------------------------
(* Datasets and their rows *)

RECURSIVE RowsUpTo(_, _, _)
RowsUpTo(coll, dataset_id, n) ==
  IF n = 0 THEN 0
  ELSE RowsUpTo(coll, dataset_id, n - 1) +
       (IF coll[n].dataset_id = dataset_id THEN coll[n].rows ELSE 0)

(* The number of Row-Records tagged with dataset_id *)
RowsOf(dataset_id) == RowsUpTo(dataset_data, dataset_id, Len(dataset_data))

(* C12: when a sync ends, with or without an exception, every Dataset it   *)
(* created is stored with exactly row_count rows tagged with its id, and   *)
(* no rows are tagged with the id of a Dataset it created that is not      *)
(* stored.                                                                 *)
C12_TableAllOrNothing ==
  SyncEnded =>
    \A dataset_id \in resp.trace.made :
      IF FindOne(datasets, dataset_id) = None THEN RowsOf(dataset_id) = 0
      ELSE RowsOf(dataset_id) = FindOne(datasets, dataset_id)[1].row_count

-----------------------------------------------------------------------------
(* Syncs, ad-hoc and scheduled, of a Connection that already has Datasets  *)
(* with their rows                                                         *)

SnapshotCounts == {1, 2}

InitSnapshot ==
  /\ Memory
  /\ connections =
       Scheduled(Registered(<<AccumInput>>), Config("hourly", 1, None, TRUE))
  /\ \E k \in SnapshotCounts :
       datasets = Accumulated(k) /\ dataset_data = AccumulatedRows(k)
  /\ uuids = 1
  /\ supplied = [id \in {Uuid(1)} |-> AccumInput]

SpecSnapshot == InitSnapshot /\ [][NextSync]_vars

Tagged(coll, dataset_id) ==
  LET Test(row) == row.dataset_id = dataset_id IN SelectSeq(coll, Test)

TaggedIds(coll) == {coll[i].dataset_id : i \in 1..Len(coll)}

(* C13: the rows tagged with a Dataset id are written in one batch, by the *)
(* sync that created the Dataset, when no row is tagged with the id; a     *)
(* new Dataset gets an id that no Dataset and no row carries; and no step  *)
(* of any sync adds to or changes the rows tagged with an id that has      *)
(* rows.                                                                   *)
C13_RowsWrittenOnce ==
  [][/\ \A dataset_id \in TaggedIds(dataset_data') :
          \/ Tagged(dataset_data', dataset_id) = Tagged(dataset_data, dataset_id)
          \/ /\ Tagged(dataset_data, dataset_id) = <<>>
             /\ Len(Tagged(dataset_data', dataset_id)) = 1
             /\ \E s \in Slots : IsSync(s) /\ dataset_id \in tasks[s].made
     /\ \A dataset_id \in Ids(datasets') \ Ids(datasets) :
          dataset_id \notin TaggedIds(dataset_data)]_vars

(* An ad-hoc sync has created a Dataset and ended while a Dataset that was *)
(* there when it began is stored with its rows                             *)
C13_NewBesideOld ==
  /\ SyncEnded /\ resp.op = "sync" /\ resp.trace.error = None
  /\ \E dataset_id \in resp.trace.made : RowsOf(dataset_id) > 0
  /\ \E dataset_id \in resp.trace.pre \cap Ids(datasets) :
       RowsOf(dataset_id) = FindOne(datasets, dataset_id)[1].row_count

-----------------------------------------------------------------------------
(* Schedules of every interval kind on one registered Connection, set by   *)
(* a caller that waits for each answer and read back at any moment, while  *)
(* time passes, the jobs fire and the process restarts                     *)

DescriptorConfigs ==
  {Config("hourly", 1, None, TRUE),
   Config("daily", 2, None, TRUE),
   Config("weekly", 3, None, TRUE),
   Config("daily", 1, None, FALSE)}

NextDescriptor ==
  \/ \E conn_id \in CallerIds, config \in DescriptorConfigs :
       Quiet /\ set_begin(conn_id, config)
  \/ \E s \in Slots : set_resume(s)
  \/ \E s \in Slots : set_update(s)
  \/ \E s \in Slots : set_disabled(s)
  \/ \E conn_id \in CallerIds : get_schedule_begin(conn_id)
  \/ \E s \in Slots : get_schedule_end(s)
  \/ \E job \in jobs : Fire(job)
  \/ \E s \in Slots : sched_find_old(s)
  \/ \E s \in Slots : sync_connect_ok(s, 0)
  \/ \E s \in Slots : sync_finish(s)
  \/ startup_db_client
  \/ Restart
  \/ Tick

SpecDescriptor == InitSchedule /\ [][NextDescriptor]_vars

IntervalKinds == {"hourly", "daily", "weekly"}

(* C14: when get_refresh_schedule answers for a Connection whose last      *)
(* schedule call was an enabling set_refresh_schedule of an interval kind  *)
(* that returned, it answers "scheduled" with a descriptor that has the    *)
(* interval_type and interval_value of that call, enabled true, and as     *)
(* next_run the next run time of the job the scheduler holds for the       *)
(* Connection.                                                             *)
C14_ReadsBackTheSchedule ==
  (Returned("get_schedule") /\ resp.trace.asked # None) =>
    LET config == resp.trace.asked[1] IN
    config.interval_type \in IntervalKinds =>
      /\ resp.body.status = "scheduled"
      /\ resp.body.schedule # None
      /\ resp.body.schedule[1].interval_type = config.interval_type
      /\ resp.body.schedule[1].interval_value = config.interval_value
      /\ resp.body.schedule[1].enabled = TRUE
      /\ resp.body.schedule[1].next_run # None
      /\ \E j \in TriggersOf(resp.conn) :
           /\ j.id = JobId(resp.conn)
           /\ resp.body.schedule[1].next_run = Some(j.next_run_time)

(* The schedule is read back after the job has fired: the next run time    *)
(* returned is later than the one persisted                                *)
C14_ReadBackAfterFire ==
  /\ Returned("get_schedule") /\ resp.trace.asked # None
  /\ resp.trace.asked[1].interval_type = "hourly"
  /\ resp.body.status = "scheduled"
  /\ resp.body.schedule[1].next_run # Persisted(resp.conn)[1].schedule[1].next_run

-----------------------------------------------------------------------------
(* Calls on ids that name no Connection *)

(* C15: a delete_database_connection on an id that names no registered     *)
(* Connection answers 404 and leaves the registry, the password            *)
(* dictionary, the scheduler's jobs and the job map as they were.          *)
C15_DeleteUnknownNotFound ==
  [][(resp'.op = "delete" /\ resp'.conn \notin Ids(connections)) =>
       /\ resp'.code = 404
       /\ UNCHANGED <<connections, passwords, jobs, scheduled_jobs>>]_vars

(* Every handler that takes an id, called by one caller that waits for     *)
(* each answer, from an empty database                                     *)
NextUnknown ==
  \/ \E in \in SyncInputs : Quiet /\ create_database_connection(in)
  \/ \E conn_id \in CallerIds : Quiet /\ delete_database_connection(conn_id)
  \/ \E conn_id \in CallerIds : Quiet /\ get_database_connection(conn_id)
  \/ \E conn_id \in CallerIds : Quiet /\ test_begin(conn_id)
  \/ \E s \in Slots : test_end(s)
  \/ \E conn_id \in CallerIds : Quiet /\ sync_begin(conn_id, None)
  \/ \E s \in Slots : sync_connect_ok(s, 0)
  \/ \E s \in Slots : sync_finish(s)
  \/ \E conn_id \in CallerIds, config \in RegistryConfigs :
       Quiet /\ set_begin(conn_id, config)
  \/ \E s \in Slots : set_resume(s)
  \/ \E s \in Slots : set_update(s)
  \/ startup_db_client
  \/ \E conn_id \in CallerIds : Quiet /\ tables_begin(conn_id)
  \/ \E s \in Slots, n \in {0, 1} : tables_end(s, n)
  \/ \E conn_id \in CallerIds : Quiet /\ get_schedule_begin(conn_id)
  \/ \E s \in Slots : get_schedule_end(s)
  \/ \E conn_id \in CallerIds : Quiet /\ delete_schedule_begin(conn_id)
  \/ \E s \in Slots : delete_schedule_resume(s)
  \/ \E s \in Slots : delete_schedule_update(s)

SpecUnknown == Init /\ [][NextUnknown]_vars

IdCalls == {"get", "test", "sync", "tables", "set_schedule", "get_schedule",
            "delete_schedule"}

InFlight(op, conn_id) ==
  \E s \in Slots : Busy(s) /\ tasks[s].op = op /\ tasks[s].conn = conn_id

(* C16: get, test, sync, tables, set_refresh_schedule, get_refresh_schedule *)
(* and delete_refresh_schedule called with an id that names no registered   *)
(* Connection, never issued or of a deleted Connection, answer 404, start   *)
(* no work, and leave the registry, the Datasets and their rows, the        *)
(* password dictionary, the scheduler's jobs and the job map as they were.  *)
C16_UnknownIdNotFound ==
  [][/\ \A op \in IdCalls, conn_id \in CallerIds \ Ids(connections) :
          ~InFlight(op, conn_id) =>
            /\ \A s \in Slots :
                 ~(tasks'[s] # Idle /\ tasks'[s].op = op /\ tasks'[s].conn = conn_id)
            /\ (resp'.op = op /\ resp'.conn = conn_id) =>
                 /\ resp' = NotFound(op, conn_id)
                 /\ UNCHANGED <<connections, datasets, dataset_data, passwords,
                                jobs, scheduled_jobs>>]_vars

(* delete_refresh_schedule was called with the id of a deleted Connection *)
C16_AskedForDeleted ==
  /\ resp.op = "delete_schedule" /\ resp.code = 404
  /\ resp.conn \in Gone

-----------------------------------------------------------------------------
(* Registrations that differ in every field, read back by one caller that  *)
(* waits for each answer, with tests, syncs and schedule calls between     *)

RoundTripInputs ==
  {[name |-> "TEST_Get_Connection", db_type |-> "mongodb", host |-> "localhost",
    port |-> 27017, database |-> "test_db", username |-> None, password |-> None,
    org_id |-> None],
   [name |-> "", db_type |-> "postgresql", host |-> "db.example.com", port |-> 0,
    database |-> "sales", username |-> Some("postgres"), password |-> Some("s3cret"),
    org_id |-> Some("org1")]}

NextRoundTrip ==
  \/ \E in \in RoundTripInputs : Quiet /\ create_database_connection(in)
  \/ \E conn_id \in CallerIds : Quiet /\ get_database_connection(conn_id)
  \/ \E conn_id \in CallerIds : Quiet /\ test_begin(conn_id)
  \/ \E s \in Slots : test_end(s)
  \/ \E conn_id \in CallerIds : Quiet /\ sync_begin(conn_id, None)
  \/ \E s \in Slots, n \in {0, 1} : sync_connect_ok(s, n)
  \/ \E s \in Slots : sync_fetch(s, 1)
  \/ \E s \in Slots : sync_insert_rows(s)
  \/ \E s \in Slots : sync_finish(s)
  \/ \E conn_id \in CallerIds, config \in RegistryConfigs :
       Quiet /\ set_begin(conn_id, config)
  \/ \E s \in Slots : set_resume(s)
  \/ \E s \in Slots : set_update(s)
  \/ \E conn_id \in CallerIds : Quiet /\ delete_schedule_begin(conn_id)
  \/ \E s \in Slots : delete_schedule_resume(s)
  \/ \E s \in Slots : delete_schedule_update(s)
  \/ startup_db_client

SpecRoundTrip == Init /\ [][NextRoundTrip]_vars

RoundTripKeys == {"name", "host", "port", "database"}

AsSupplied(doc) == \A k \in RoundTripKeys : doc[k] = supplied[doc.id][k]

(* C17: the record get_database_connection returns for a registered        *)
(* Connection has the name, host, port and database that were supplied at  *)
(* its registration, and so has the stored record, whatever tests, syncs   *)
(* and schedule calls have been made on the Connection.                    *)
C17_RoundTrip ==
  /\ \A i \in 1..Len(connections) : AsSupplied(connections[i])
  /\ Returned("get") => AsSupplied(resp.body)

(* get returns the record after a test, a sync and a schedule call *)
C17_ReadAfterAll ==
  /\ Returned("get") /\ resp.body.status = "synced"
  /\ Get(resp.body, "last_tested") # None /\ resp.body.schedule # None
  /\ resp.body.port = 0

-----------------------------------------------------------------------------
(* Engine kinds that are none of the three *)

UnsupportedKind(conn_id) ==
  Persisted(conn_id) # None /\ Persisted(conn_id)[1].db_type \notin DbTypes

(* C18: a Connection whose engine kind is none of mongodb, postgresql and  *)
(* mysql never has status "connected" or "synced", and every test and      *)
(* every sync of it, ad-hoc or scheduled, ends with the error outcome of   *)
(* an unsupported engine kind.                                             *)
C18_UnsupportedNeverSyncs ==
  /\ \A i \in 1..Len(connections) :
       connections[i].db_type \notin DbTypes =>
         connections[i].status \notin {"connected", "synced"}
  /\ (TestReturned(resp) /\ UnsupportedKind(resp.conn)) =>
       /\ resp.body.status = "error"
       /\ resp.body.message = Str(Unsupported(Persisted(resp.conn)[1].db_type))
  /\ (SyncReturned(resp) /\ UnsupportedKind(resp.conn)) =>
       /\ resp.body.status = "error"
       /\ resp.trace.error = Some(Unsupported(Persisted(resp.conn)[1].db_type))

-----------------------------------------------------------------------------
(* The order of a scheduled sync *)

(* Once the sync has created a Dataset, no Dataset that was there when it  *)
(* began is stored and no row is tagged with the id of one                 *)
Replaced(pre, made) ==
  made # {} => pre \cap (Ids(datasets) \cup TaggedIds(dataset_data)) = {}

(* C19: in every state during a scheduled sync of a Connection and when it *)
(* ends, if the sync has inserted a Dataset then every Dataset the         *)
(* Connection had when the sync began is deleted, with its rows.           *)
C19_DeleteBeforeInsert ==
  /\ \A s \in Slots :
       (Busy(s) /\ tasks[s].op = "sched") => Replaced(tasks[s].pre, tasks[s].made)
  /\ (resp.op = "sched" /\ "trace" \in DOMAIN resp) =>
       Replaced(resp.trace.pre, resp.trace.made)

-----------------------------------------------------------------------------
(* Schedule calls that interleave *)

Settled == \A s \in Slots : ~(Busy(s) /\ tasks[s].op \in ScheduleOps)

(* C20: whenever no set_refresh_schedule and no delete_refresh_schedule is *)
(* in flight, however the calls made so far have interleaved, the job map  *)
(* has an entry for a Connection exactly when the scheduler holds the job  *)
(* "sync_" + its id.                                                       *)
C20_MapMatchesScheduler ==
  Settled =>
    \A conn_id \in Ids(connections) :
      conn_id \in DOMAIN scheduled_jobs <=> HasJob(jobs, JobId(conn_id))

-----------------------------------------------------------------------------
(* Scheduled syncs that fail *)

(* The Dataset is stored with all its rows *)
Intact(dataset_id) ==
  /\ FindOne(datasets, dataset_id) # None
  /\ RowsOf(dataset_id) = FindOne(datasets, dataset_id)[1].row_count

(* C21: when a scheduled sync of a Connection ends on an adapter error,    *)
(* every Dataset the Connection had when the job fired is stored with its  *)
(* rows.                                                                   *)
C21_FailedFireKeepsData ==
  (AdapterFailed /\ resp.op = "sched") =>
    \A dataset_id \in resp.trace.pre : Intact(dataset_id)

-----------------------------------------------------------------------------
(* Schedule calls with configurations that are rejected, made by a caller  *)
(* that waits for each answer on one registered Connection                 *)

RejectConfigs ==
  {Config("hourly", 1, None, TRUE),
   Config("monthly", 1, None, TRUE),
   Config("custom", 1, None, TRUE),
   Config("custom", 1, Some(<<"every", "day">>), TRUE)}

NextReject ==
  \/ \E conn_id \in CallerIds, config \in RejectConfigs :
       Quiet /\ set_begin(conn_id, config)
  \/ \E s \in Slots : set_resume(s)
  \/ \E s \in Slots : set_update(s)
  \/ \E conn_id \in CallerIds : get_schedule_begin(conn_id)
  \/ \E s \in Slots : get_schedule_end(s)
  \/ \E conn_id \in CallerIds : Quiet /\ delete_schedule_begin(conn_id)
  \/ \E s \in Slots : delete_schedule_resume(s)
  \/ \E s \in Slots : delete_schedule_update(s)
  \/ \E job \in jobs : Fire(job)
  \/ \E s \in Slots : sched_find_old(s)
  \/ \E s \in Slots : sync_connect_ok(s, 0)
  \/ \E s \in Slots : sync_finish(s)
  \/ startup_db_client
  \/ Restart
  \/ Tick

SpecReject == InitSchedule /\ [][NextReject]_vars

Rejected(r) == r.op = "set_schedule" /\ r.code \in {400, 500}

(* C22: a set_refresh_schedule that is rejected for its configuration      *)
(* leaves the scheduler's jobs, the job map and the persisted schedule of  *)
(* the Connection as they were.                                            *)
C22_RejectedChangesNothing ==
  [][Rejected(resp') => UNCHANGED <<jobs, scheduled_jobs, connections>>]_vars

(* C23: whenever the process is serving and no set_refresh_schedule and no *)
(* delete_refresh_schedule is in flight, a registered Connection has a job *)
(* in the scheduler exactly when its persisted schedule is not null and    *)
(* has enabled = true, and a get_refresh_schedule answer of "scheduled"    *)
(* that still agrees with the persisted schedule is an answer for a        *)
(* Connection that has a job.                                              *)
C23_TriggerIffEnabled ==
  (serving /\ Settled) =>
    /\ \A i \in 1..Len(connections) :
         TriggersOf(connections[i].id) # {} <=> ScheduleEnabled(connections[i])
    /\ ( /\ Returned("get_schedule") /\ resp.body.status = "scheduled"
         /\ Persisted(resp.conn) # None
         /\ Persisted(resp.conn)[1].schedule # None ) =>
         TriggersOf(resp.conn) # {}

-----------------------------------------------------------------------------
(* The steps of ad-hoc syncs: the tasks of other kinds are as they were *)
AdHoc(ts) == LET Test(t) == t.op = "sync" IN SelectSeq(ts, Test)

NotAdHoc(ts) == LET Test(t) == t.op \notin {"sync", "idle"} IN SelectSeq(ts, Test)

AdHocStep == AdHoc(tasks') # AdHoc(tasks) /\ NotAdHoc(tasks') = NotAdHoc(tasks)

IsPrefix(a, b) == Len(a) <= Len(b) /\ SubSeq(b, 1, Len(a)) = a

(* C24: no step of an ad-hoc sync removes or changes a stored Dataset or a *)
(* stored row: what was stored before the step is stored after it, as it   *)
(* was.  A step that stores a Dataset stores one, with the source_id of    *)
(* the Connection being synced and an id that no stored Dataset and no     *)
(* stored row carries; and an ad-hoc sync that succeeds has created one    *)
(* Dataset for each non-empty table it met, none of them a Dataset the     *)
(* Connection had when the sync began.                                     *)
C24_AdHocOnlyAdds ==
  [][AdHocStep =>
       /\ IsPrefix(datasets, datasets')
       /\ IsPrefix(dataset_data, dataset_data')
       /\ datasets' # datasets =>
            /\ Len(datasets') = Len(datasets) + 1
            /\ LET doc == datasets'[Len(datasets')] IN
                 /\ doc.id \notin Ids(datasets) \cup TaggedIds(dataset_data)
                 /\ \E s \in Slots : /\ Busy(s) /\ tasks[s].op = "sync"
                                     /\ tasks[s].conn = doc.source_id
       /\ (resp'.op = "sync" /\ resp'.code = 200 /\ resp'.body.status = "success") =>
            /\ Cardinality(resp'.trace.made) = resp'.trace.hit
            /\ resp'.trace.made \cap resp'.trace.pre = {}]_vars

(* An ad-hoc sync of a Connection that had Datasets has succeeded, and the *)
(* Dataset it created is stored with its rows beside every Dataset the     *)
(* Connection had, each as it was with its rows                            *)
C24_OneMoreDataset ==
  /\ Returned("sync") /\ resp.body.status = "success"
  /\ resp.trace.pre # {} /\ resp.trace.made # {}
  /\ \A dataset_id \in resp.trace.pre \cup resp.trace.made : Intact(dataset_id)
  /\ SourceIds(resp.conn) = resp.trace.pre \cup resp.trace.made

-----------------------------------------------------------------------------
(* The step that a sync in slot s takes from materializing its tables to t *)
Materializing(s) == IsSync(s) /\ tasks[s].pc \in {"table", "rows"}

StepTo(s, t) == t # tasks[s] /\ tasks' = Arrange([tasks EXCEPT ![s] = t])

NamedFor(t, tbls) == {t.name \o " - " \o tbls[i] : i \in 1..Len(tbls)}

(* C25: no step of a sync that is materializing its tables removes or      *)
(* changes a stored Dataset or a stored row.  The step on which            *)
(* materializing a table raises stores and removes nothing, ends the sync  *)
(* (no further step of it follows and its job is not run again for it)     *)
(* with the outcome "error", after one Dataset for each non-empty table    *)
(* met and none for a table after the failing one.                         *)
C25_ErrorKeepsEarlierTables ==
  [][\A s \in Slots : \A t \in Range(tasks') \cup {Idle} :
       (Materializing(s) /\ StepTo(s, t)) =>
         /\ IsPrefix(datasets, datasets')
         /\ IsPrefix(dataset_data, dataset_data')
         /\ (SyncEnded' /\ resp'.trace.error # None) =>
              /\ t = Idle
              /\ UNCHANGED <<datasets, dataset_data, uuids, jobs>>
              /\ resp'.body.status = "error"
              /\ resp'.trace.made = tasks[s].made
              /\ Cardinality(resp'.trace.made) = resp'.trace.hit
              /\ \A i \in 1..Len(datasets) :
                   datasets[i].id \in tasks[s].made =>
                     datasets[i].name \notin NamedFor(tasks[s], Tail(tasks[s].tables))]_vars

(* A sync of two tables has ended on the error raised for the second, and  *)
(* the Dataset of the first is stored with its rows                        *)
C25_FirstTableKept ==
  /\ AdapterFailed
  /\ resp.trace.hit + resp.trace.skipped = 1
  /\ resp.trace.made # {}
  /\ \A dataset_id \in resp.trace.made : Intact(dataset_id)

-----------------------------------------------------------------------------
NoSyncInFlight == \A s \in Slots : ~IsSync(s)

(* C26: once no sync is in flight, whatever the interleaving of the ad-hoc *)
(* and the scheduled syncs of a Connection has been, every stored row is   *)
(* tagged with the id of a stored Dataset.                                 *)
C26_RowsNameADataset ==
  NoSyncInFlight => TaggedIds(dataset_data) \subseteq Ids(datasets)

-----------------------------------------------------------------------------
(* Schedule calls beside the scheduled syncs they may find in flight: a    *)
(* caller that sets one schedule at a time and callers that remove it at   *)
(* any time.  The event loop resumes a scheduled sync whose awaited call   *)
(* has completed.                                                          *)

DispatchConfigs ==
  {Config("hourly", 1, None, TRUE),
   Config("custom", 1, Some(<<"0", "*/6", "*", "*", "*">>), TRUE),
   Config("daily", 1, None, FALSE)}

SchedStep(s) ==
  \/ sched_find_old(s)
  \/ sync_connect_ok(s, 0)
  \/ sync_connect_fails(s)
  \/ sync_finish(s)

NextDispatch ==
  \/ \E conn_id \in CallerIds, config \in DispatchConfigs :
       Settled /\ set_begin(conn_id, config)
  \/ \E s \in Slots : set_resume(s)
  \/ \E s \in Slots : set_update(s)
  \/ \E s \in Slots : set_disabled(s)
  \/ \E conn_id \in CallerIds : delete_schedule_begin(conn_id)
  \/ \E s \in Slots : delete_schedule_resume(s)
  \/ \E s \in Slots : delete_schedule_update(s)
  \/ \E job \in jobs : Fire(job)
  \/ \E s \in Slots : SchedStep(s)
  \/ startup_db_client
  \/ Restart
  \/ Tick

SpecDispatch ==
  InitSchedule /\ [][NextDispatch]_vars /\ WF_vars(\E s \in Slots : SchedStep(s))

(* The step on which the scheduler runs job j *)
Dispatched(j) ==
  /\ j \in jobs /\ j \notin jobs'
  /\ resp'.op = "sched" /\ resp'.code = 0 /\ resp'.conn = j.args
  /\ resp'.body.status \in {"executing", "not found"}

TriggerOf(config) ==
  MakeTrigger(config.interval_type, config.interval_value, config.custom_cron).trigger

(* A schedule call that removes or disables has returned *)
Removal(r) ==
  \/ r.op = "delete_schedule" /\ r.code = 200
  \/ r.op = "set_schedule" /\ r.code = 200 /\ r.body.status = "disabled"

Count(ts, t) == Cardinality({r \in Slots : ts[r] = t})

(* The task in slot s takes the step *)
Steps(s) == Busy(s) /\ Count(tasks', tasks[s]) < Count(tasks, tasks[s])

RunningIn(ts, conn_id) ==
  \E r \in Slots : ts[r].op = "sched" /\ ts[r].conn = conn_id

(* C27: once an enabling set_refresh_schedule has returned, and until the  *)
(* next schedule call on the Connection begins, the scheduler runs for the *)
(* Connection only the trigger built from that call's configuration, and   *)
(* once a disabling call has returned it runs none; a job that a schedule  *)
(* call takes out of the scheduler is not in it afterwards, and when a     *)
(* removing call returns the scheduler holds no job for the Connection     *)
(* (calls on a Connection that overlapped each other aside).  No step of   *)
(* a schedule call changes or ends a scheduled sync in flight; a           *)
(* scheduled sync ends only with the status "synced" or "error" written,   *)
(* and every scheduled sync in flight ends.                                *)
C27_OldTriggerStopsSyncRuns ==
  /\ [][/\ \A j \in jobs : Dispatched(j) =>
              /\ j.args \in (DOMAIN live) \ racy => j.trigger = TriggerOf(live[j.args])
              /\ j.args \notin off \ racy
        /\ \A s \in Slots :
             (Steps(s) /\ tasks[s].op \in ScheduleOps /\ serving') =>
               /\ \A o \in jobs \ jobs' :
                    /\ o.args = tasks[s].conn
                    /\ \A n \in jobs' : n.id = o.id => n \notin jobs
               /\ \A r \in Slots : tasks[r].op = "sched" => ~Steps(r)
               /\ (Removal(resp') /\ resp'.conn \notin racy') =>
                    {j \in jobs' : j.args = resp'.conn} = {}
        /\ \A s \in Slots :
             ( /\ Steps(s) /\ tasks[s].op = "sched" /\ serving'
               /\ ~RunningIn(tasks', tasks[s].conn) ) =>
               /\ resp'.op = "sched" /\ resp'.body.status \in {"completed", "error"}
               /\ FindOne(connections', tasks[s].conn) # None =>
                    FindOne(connections', tasks[s].conn)[1].status =
                      IF resp'.body.status = "completed" THEN "synced" ELSE "error"]_vars
  /\ \A i \in 0..MaxUuids : Running(Uuid(i)) ~> ~Running(Uuid(i))

(* A scheduled sync has completed after the schedule that dispatched it    *)
(* was removed: no job is left and the status is "synced"                  *)
C27_RanToItsEnd ==
  /\ resp.op = "sched" /\ resp.code = 0 /\ resp.body.status = "completed"
  /\ TriggersOf(resp.conn) = {}
  /\ Persisted(resp.conn)[1].schedule = None
  /\ Persisted(resp.conn)[1].status = "synced"

-----------------------------------------------------------------------------
(* Two Connections with enabled schedules, a relational one registered     *)
(* now and a document store registered by an earlier process under an id   *)
(* drawn then; each has one Dataset with its rows from an earlier sync.    *)
(* A caller syncs the first ad hoc while the schedules of both fire.       *)

PairInputs ==
  <<Input("TEST_PostgreSQL_Connection", "postgresql", Some("postgres"), Some("s3cret")),
    AccumInput>>

PairIds == <<Uuid(1), OldId(0)>>

PairDocs ==
  Scheduled([i \in 1..2 |->
               [ConnDocWithSecret(PairIds[i], PairInputs[i]) EXCEPT !.created_at = 0]],
            Config("hourly", 1, None, TRUE))

PairDatasets ==
  [i \in 1..2 |->
     DatasetDoc([name |-> PairInputs[i].name, conn |-> PairIds[i],
                 db_type |-> PairInputs[i].db_type, org_id |-> PairInputs[i].org_id],
                OldId(i), TableName(1), 1)]

InitPair ==
  /\ Memory
  /\ connections = PairDocs
  /\ datasets = PairDatasets
  /\ dataset_data = AccumulatedRows(2)
  /\ uuids = 1
  /\ supplied = [id \in Range(PairIds) |->
                   PairInputs[CHOOSE i \in 1..2 : PairIds[i] = id]]

NextPair ==
  \/ Quiet /\ sync_begin(PairIds[1], None)
  \/ \E job \in jobs : Fire(job)
  \/ \E s \in Slots : sched_find_old(s)
  \/ \E s \in Slots : sched_delete_rows(s)
  \/ \E s \in Slots : sched_delete_dataset(s)
  \/ \E s \in Slots : sync_connect_ok(s, 1)
  \/ \E s \in Slots : sync_connect_fails(s)
  \/ \E s \in Slots : sync_fetch(s, 1)
  \/ \E s \in Slots : sync_insert_rows(s)
  \/ \E s \in Slots : sync_finish(s)
  \/ startup_db_client
  \/ Tick

SpecPair == InitPair /\ [][NextPair]_vars

NotOfSource(coll, conn_id) ==
  LET Test(doc) == doc.source_id # conn_id IN SelectSeq(coll, Test)

Untagged(coll, ids) ==
  LET Test(row) == row.dataset_id \notin ids IN SelectSeq(coll, Test)

(* The ids of the Datasets of its Connection that a sync can name *)
Own(t) == SourceIds(t.conn) \cup t.pre \cup t.made \cup Range(t.old)

(* C28: a step of a sync of a Connection, ad-hoc or scheduled, whatever    *)
(* syncs of other Connections are in flight, leaves as they were the       *)
(* Datasets of every other source, the rows of every Dataset that is not   *)
(* of its Connection, and the registry record of every other Connection,   *)
(* with its status, last_sync and schedule; it adds and removes no         *)
(* registry record.                                                        *)
C28_SyncTouchesOnlyItsConnection ==
  [][\A s \in Slots : (Steps(s) /\ IsSync(s)) =>
       /\ NotOfSource(datasets', tasks[s].conn) = NotOfSource(datasets, tasks[s].conn)
       /\ Untagged(dataset_data', Own(tasks[s])) = Untagged(dataset_data, Own(tasks[s]))
       /\ Len(connections') = Len(connections)
       /\ \A i \in 1..Len(connections) :
            connections[i].id # tasks[s].conn => connections'[i] = connections[i]]_vars

(* A scheduled sync of one Connection has replaced its Dataset and ended   *)
(* while a sync of the other Connection is in flight, and the Dataset of   *)
(* the other Connection is stored with its rows                            *)
C28_OtherUntouched ==
  /\ SyncEnded /\ resp.op = "sched" /\ resp.trace.error = None
  /\ resp.trace.pre # {} /\ resp.trace.pre \cap Ids(datasets) = {}
  /\ \E dataset_id \in resp.trace.made : Intact(dataset_id)
  /\ \E s \in Slots : IsSync(s) /\ tasks[s].conn # resp.conn
  /\ \E i \in 1..Len(datasets) :
       datasets[i].source_id # resp.conn /\ Intact(datasets[i].id)

-----------------------------------------------------------------------------
(* Syncs of one Connection against an engine that holds more tables than   *)
(* a sync takes, and more than the relational listing returns, with        *)
(* tables that are empty, small, and larger than a fetch returns.          *)

NextCap ==
  \/ \E conn_id \in CallerIds, table_name \in TableNames :
       Quiet /\ sync_begin(conn_id, table_name)
  \/ \E job \in jobs : Fire(job)
  \/ \E s \in Slots : sched_find_old(s)
  \/ \E s \in Slots : sched_delete_rows(s)
  \/ \E s \in Slots : sched_delete_dataset(s)
  \/ \E s \in Slots, n \in {TableCap + 1, PgListLimit + 1} : sync_connect_ok(s, n)
  \/ \E s \in Slots, size \in {0, 1, RowLimit + 1} : sync_fetch(s, size)
  \/ \E s \in Slots : sync_insert_rows(s)
  \/ \E s \in Slots : sync_finish(s)
  \/ startup_db_client
  \/ Tick

SpecCap == InitSync /\ [][NextCap]_vars

(* The most target tables a sync takes *)
MostTargets(t) == IF t.table_name # None THEN 1 ELSE TableCap

(* C29: a sync has created one Dataset for each target table it found     *)
(* holding rows and none for a table holding none, and it takes at most 5  *)
(* target tables when no table is named and at most 1 when one is; so it   *)
(* ends having created at most 5 Datasets, and every Dataset created has   *)
(* a row_count from 1 to 10,000.                                           *)
C29_AtMostFiveDatasets ==
  /\ \A s \in Slots : IsSync(s) =>
       /\ Cardinality(tasks[s].made) = tasks[s].hit
       /\ Len(tasks[s].tables) <= MostTargets(tasks[s])
       /\ tasks[s].hit + tasks[s].skipped <= MostTargets(tasks[s])
  /\ SyncEnded =>
       /\ Cardinality(resp.trace.made) = resp.trace.hit
       /\ resp.trace.hit + resp.trace.skipped <= TableCap
  /\ \A i \in 1..Len(datasets) :
       datasets[i].row_count >= 1 /\ datasets[i].row_count <= RowLimit

(* A sync without a table name has ended after 5 target tables, of which   *)
(* four were empty and one held more rows than a fetch returns: its one    *)
(* Dataset is stored with 10,000 rows                                      *)
C29_FiveTablesTaken ==
  /\ SyncEnded /\ resp.trace.error = None
  /\ resp.trace.hit = 1 /\ resp.trace.skipped = TableCap - 1
  /\ \E dataset_id \in resp.trace.made :
       /\ Intact(dataset_id)
       /\ FindOne(datasets, dataset_id)[1].row_count = RowLimit

-----------------------------------------------------------------------------
(* Registration with and without a secret, a schedule, restarts, and the   *)
(* syncs a caller asks for and the restored schedule fires.                *)
NextSecret ==
  \/ \E in \in SyncInputs : Quiet /\ create_database_connection(in)
  \/ \E conn_id \in CallerIds, config \in RegistryConfigs :
       Quiet /\ set_begin(conn_id, config)
  \/ \E s \in Slots : set_resume(s)
  \/ \E s \in Slots : set_update(s)
  \/ \E conn_id \in CallerIds : Quiet /\ sync_begin(conn_id, None)
  \/ \E job \in jobs : Fire(job)
  \/ \E s \in Slots : sched_find_old(s)
  \/ \E s \in Slots : sync_connect_ok(s, 0)
  \/ \E s \in Slots : sync_finish(s)
  \/ startup_db_client
  \/ Restart
  \/ Tick

SpecSecret == Init /\ [][NextSecret]_vars

(* C30: a restart empties the password dictionary and changes no registry  *)
(* record, has_password and schedule included; the startup that follows    *)
(* restores jobs and writes neither; an entry appears in the dictionary    *)
(* only for a Connection registered on that step, so none appears for a    *)
(* Connection registered before a restart; and a scheduled sync runs with  *)
(* the entry of its Connection, or with the empty string when there is     *)
(* none.                                                                   *)
C30_RestartDropsSecrets ==
  [][/\ (serving /\ ~serving') => (passwords' = EmptyDict /\ UNCHANGED connections)
     /\ ~serving' => passwords' = EmptyDict
     /\ (~serving /\ serving') => UNCHANGED <<passwords, connections>>
     /\ (DOMAIN passwords') \ (DOMAIN passwords) \subseteq Ids(connections') \ Ids(connections)
     /\ \A s \in Slots :
          (tasks'[s].op = "sched" /\ tasks'[s] \notin Range(tasks)) =>
            tasks'[s].password = DictGet(passwords', tasks'[s].conn, "")]_vars

(* After a restart the restored schedule of a Connection registered with   *)
(* a secret has fired: the record is flagged and scheduled as before, the  *)
(* dictionary has no entry for it, and the sync runs with the empty string *)
C30_RestoredSyncWithoutSecret ==
  \E s \in Slots :
    /\ Busy(s) /\ tasks[s].op = "sched" /\ tasks[s].password = ""
    /\ Truthy(supplied[tasks[s].conn].password)
    /\ tasks[s].conn \notin DOMAIN passwords
    /\ Persisted(tasks[s].conn) # None
    /\ Flagged(Persisted(tasks[s].conn)[1])
    /\ ScheduleEnabled(Persisted(tasks[s].conn)[1])

====
